---------------------------- MODULE Spec2Model ----------------------------
(***************************************************************************)
(* A model of the SMS -> YNAB ingestion pipeline (Supabase edge function). *)
(*                                                                         *)
(* Conventions                                                             *)
(*  - A JavaScript string is a TLA+ string; where the code looks inside a  *)
(*    string (toLowerCase, includes, a regular expression, slice) the      *)
(*    model works on its characters, given by Chars.                       *)
(*  - null / undefined is None (the empty tuple), a present value v is     *)
(*    Some(v) (a one-element tuple).                                       *)
(*  - Money is an integer number of 1/Scale kwacha, finer than a           *)
(*    milliunit, so that toMilliunits really rounds.                       *)
(*  - Time is in minutes; an ISO timestamp is the pair <<day, minute of    *)
(*    day>>, and slice(0, 10) of it is the one-element tuple <<day>>.      *)
(*  - SHA-256 truncated to 32 hex digits is collision-free in the model:   *)
(*    a digest is represented by the text that was hashed.                 *)
(***************************************************************************)
EXTENDS Integers, Sequences, FiniteSets, TLC

None == <<>>
Some(v) == <<v>>
IsSome(o) == o # <<>>
Val(o) == o[1]

(***************************************************************************)
(* Strings and their characters.                                           *)
(***************************************************************************)
Chars(s) ==
  CASE s = "AirtelMoney" -> <<"A","i","r","t","e","l","M","o","n","e","y">>
    [] s = "airtelmoney" -> <<"a","i","r","t","e","l","m","o","n","e","y">>
    [] s = "MoMo" -> <<"M","o","M","o">>
    [] s = "momo" -> <<"m","o","m","o">>
    [] s = "115" -> <<"1","1","5">>
    [] s = "Absa" -> <<"A","b","s","a">>
    [] s = "absa" -> <<"a","b","s","a">>
    [] s = "ABSA_ZM" -> <<"A","B","S","A","_","Z","M">>
    [] s = "absa_zm" -> <<"a","b","s","a","_","z","m">>
    [] s = "StanChart" -> <<"S","t","a","n","C","h","a","r","t">>
    [] s = "stanchart" -> <<"s","t","a","n","c","h","a","r","t">>
    [] s = "StanChartZM" -> <<"S","t","a","n","C","h","a","r","t","Z","M">>
    [] s = "stanchartzm" -> <<"s","t","a","n","c","h","a","r","t","z","m">>
    [] s = "MTN" -> <<"M","T","N">>
    [] s = "unknown" -> <<"u","n","k","n","o","w","n">>
    [] s = "airtel" -> <<"a","i","r","t","e","l">>
    [] s = "mtn" -> <<"m","t","n">>
    [] s = "zamtel" -> <<"z","a","m","t","e","l">>
    [] s = "zampay" -> <<"z","a","m","p","a","y">>
    [] s = "standard chartered" ->
         <<"s","t","a","n","d","a","r","d"," ","c","h","a","r","t","e","r","e","d">>
    [] s = "ending" -> <<"e","n","d","i","n","g">>
    [] s = "Airtel Money" -> <<"A","i","r","t","e","l"," ","M","o","n","e","y">>
    [] s = "MTN MoMo" -> <<"M","T","N"," ","M","o","M","o">>
    [] s = "Zamtel Money" -> <<"Z","a","m","t","e","l"," ","M","o","n","e","y">>
    [] s = "Absa Current" -> <<"A","b","s","a"," ","C","u","r","r","e","n","t">>
    [] s = "absa current" -> <<"a","b","s","a"," ","c","u","r","r","e","n","t">>
    [] s = "Absa Savings" -> <<"A","b","s","a"," ","S","a","v","i","n","g","s">>
    [] s = "Stanchart Current" ->
         <<"S","t","a","n","c","h","a","r","t"," ","C","u","r","r","e","n","t">>
    [] s = "Unknown Imports" ->
         <<"U","n","k","n","o","w","n"," ","I","m","p","o","r","t","s">>
    [] s = "4983" -> <<"4","9","8","3">>
    [] s = "0878" -> <<"0","8","7","8">>
    [] s = "Sent ZMW 100 to John" ->
         <<"S","e","n","t"," ","Z","M","W"," ","1","0","0"," ","t","o"," ","J","o","h","n">>
    [] s = "Debit on acct Ending 4983" ->
         <<"D","e","b","i","t"," ","o","n"," ","a","c","c","t"," ",
           "E","n","d","i","n","g"," ","4","9","8","3">>
    [] s = "Paid from acct ending  0878" ->
         <<"P","a","i","d"," ","f","r","o","m"," ","a","c","c","t"," ",
           "e","n","d","i","n","g"," "," ","0","8","7","8">>
    [] s = "Spending 123 ending 12" ->
         <<"S","p","e","n","d","i","n","g"," ","1","2","3"," ",
           "e","n","d","i","n","g"," ","1","2">>
    [] s = "John Doe" -> <<"J","o","h","n"," ","D","o","e">>
    [] s = "JOHN DOE" -> <<"J","O","H","N"," ","D","O","E">>
    [] s = "Old Shop" -> <<"O","l","d"," ","S","h","o","p">>
    [] s = "Jane" -> <<"J","a","n","e">>
    [] s = "Airtel" -> <<"A","i","r","t","e","l">>
    [] s = "Absa Bank" -> <<"A","b","s","a"," ","B","a","n","k">>
    [] s = "Fees" -> <<"F","e","e","s">>
    [] s = "Groceries" -> <<"G","r","o","c","e","r","i","e","s">>
    [] s = "groceries" -> <<"g","r","o","c","e","r","i","e","s">>
    [] s = "0770284890" -> <<"0","7","7","0","2","8","4","8","9","0">>
    [] s = "97" -> <<"9","7">>
    [] s = "77" -> <<"7","7">>
    [] s = "96" -> <<"9","6">>
    [] s = "76" -> <<"7","6">>
    [] s = "95" -> <<"9","5">>
    [] s = "75" -> <<"7","5">>
    [] s = "260" -> <<"2","6","0">>
    [] s = "promotional" -> <<"p","r","o","m","o","t","i","o","n","a","l">>
    [] s = "ABSA" -> <<"A","B","S","A">>
    [] s = "fees" -> <<"f","e","e","s">>
    [] s = "" -> <<>>

UpperCase == <<"A","B","C","D","E","F","G","H","I","J","K","L","M",
               "N","O","P","Q","R","S","T","U","V","W","X","Y","Z">>
LowerCase == <<"a","b","c","d","e","f","g","h","i","j","k","l","m",
               "n","o","p","q","r","s","t","u","v","w","x","y","z">>
Digits == {"0","1","2","3","4","5","6","7","8","9"}
Whitespace == {" ", "\t", "\n"}

\* String.prototype.toLowerCase, one character
LowerChar(c) ==
  IF \E i \in 1..Len(UpperCase) : UpperCase[i] = c
    THEN LowerCase[CHOOSE i \in 1..Len(UpperCase) : UpperCase[i] = c]
    ELSE c

\* String.prototype.toLowerCase on the characters cs
ToLower(cs) == [i \in 1..Len(cs) |-> LowerChar(cs[i])]

\* String.prototype.includes: needle occurs somewhere in hay (both characters)
Includes(hay, needle) ==
  \E i \in 0..(Len(hay) - Len(needle)) :
    \A k \in 1..Len(needle) : hay[i + k] = needle[k]

\* String.prototype.startsWith
StartsWith(cs, prefix) ==
  /\ Len(prefix) <= Len(cs)
  /\ \A k \in 1..Len(prefix) : cs[k] = prefix[k]

\* a.toLowerCase() === b.toLowerCase() for two strings
\* mutant: names are compared as they are written
SameNameIgnoringCase_exactCase(a, b) == Chars(a) = Chars(b)

\* a.name.toLowerCase() === name.toLowerCase()
SameNameIgnoringCase(a, b) == ToLower(Chars(a)) = ToLower(Chars(b))


(***************************************************************************)
(* Money.  toMilliunits and getSign (gemini.ts).                           *)
(***************************************************************************)
MilliPerUnit == 1000
\* amounts are integers in 1/Scale kwacha, half a milliunit each, which keeps
\* the largest tier bound of the fee schedules within 32 bits
Scale == 2 * MilliPerUnit
\* the number z.hh kwacha (hh in hundredths) as an amount
K(z, hh) == z * Scale + hh * (Scale \div 100)

\* Math.round(amount * 1000): the nearest integer, a half rounds up
toMilliunits(amount) ==
  (amount + (Scale \div MilliPerUnit) \div 2) \div (Scale \div MilliPerUnit)

getSign(direction) == IF direction = Some("inflow") THEN 1 ELSE -1

(***************************************************************************)
(* Configuration (config.ts).                                              *)
(***************************************************************************)
\* keys are lower-cased sender names, values are ledger account names
SENDER_TO_ACCOUNT ==
  << <<"airtelmoney", "Airtel Money">>, <<"momo", "MTN MoMo">>,
     <<"115", "Zamtel Money">>,
     <<"absa", "Absa Current">>, <<"absa_zm", "Absa Current">>,
     <<"stanchart", "Stanchart Current">>, <<"stanchartzm", "Stanchart Current">> >>

\* the ACCOUNT_ENDINGS secret of the deployment, as in the file's example
ACCOUNT_ENDING_HINTS == << <<"4983", "Absa Current">>, <<"0878", "Absa Savings">> >>

FALLBACK_ACCOUNT_NAME == "Unknown Imports"

\* a JavaScript object lookup obj[key], the key given by its characters;
\* an object is the sequence of its <<key, value>> entries
Lookup(obj, keyChars) ==
  IF \E i \in 1..Len(obj) : Chars(obj[i][1]) = keyChars
    THEN Some(obj[CHOOSE i \in 1..Len(obj) : Chars(obj[i][1]) = keyChars][2])
    ELSE None

getAccountNameBySender(sender) ==
  Lookup(SENDER_TO_ACCOUNT, ToLower(Chars(sender)))

getAccountNameByEnding(ending) == Lookup(ACCOUNT_ENDING_HINTS, ending)

(***************************************************************************)
(* Fee schedules (fee-calculator.ts).                                      *)
(***************************************************************************)
Providers == {"airtel", "mtn", "zamtel", "absa", "stanchart", "unknown"}

TransferTypes == {"same_network", "cross_network", "to_bank", "from_bank",
                  "to_mobile", "withdrawal", "bill_payment", "airtime", "unknown"}

\* the value of the FEE_CATEGORY_NAME secret (null when it is not set)
FEE_CATEGORY_NAME == Some("Fees")

Tier(lo, hi, fee) == [min |-> lo, max |-> hi, fee |-> fee]

MobileMoneyTiers(f5) ==
  << Tier(K(0, 0), K(150, 0), K(0, 58)),
     Tier(K(150, 0), K(300, 0), K(1, 10)),
     Tier(K(300, 0), K(500, 0), K(1, 20)),
     Tier(K(500, 0), K(1000, 0), K(2, 0)),
     Tier(K(1000, 0), K(3000, 0), f5),
     Tier(K(3000, 0), K(5000, 0), K(5, 0)),
     Tier(K(5000, 0), K(10000, 0), K(7, 0)) >>

Schedule(payee, tiers) ==
  [payee |-> payee, category |-> FEE_CATEGORY_NAME, tiers |-> tiers]

FEE_CONFIG ==
  [airtel |->
     [same_network |-> Schedule("Airtel", MobileMoneyTiers(K(3, 60))),
      cross_network |-> Schedule("Airtel", <<>>),
      to_bank |-> Schedule("Airtel", <<>>),
      withdrawal |-> Schedule("Airtel", <<>>),
      airtime |-> Schedule("Airtel", <<>>),
      bill_payment |-> Schedule("Airtel", <<>>)],
   mtn |-> [same_network |-> Schedule("MTN", MobileMoneyTiers(K(3, 80)))],
   zamtel |-> [same_network |-> Schedule("Zamtel", <<>>)],
   absa |->
     [to_mobile |-> Schedule("Absa", << Tier(K(0, 0), K(1000000, 0), K(10, 0)) >>),
      withdrawal |-> Schedule("Absa", << Tier(K(0, 0), K(1000000, 0), K(20, 0)) >>),
      bill_payment |-> Schedule("Absa", <<>>)],
   stanchart |-> <<>>,
   unknown |-> <<>>]

SMS_NOTIFICATION_FEES ==
  [absa |-> [fee |-> K(0, 50), payee |-> "Absa", category |-> FEE_CATEGORY_NAME]]

FeeResult(fee, payee, category, configured) ==
  [fee |-> fee, payee |-> payee, category |-> category, configured |-> configured]

\* FEE_CONFIG[provider]?.[transferType]
ScheduleOf(provider, transferType) ==
  IF provider \in DOMAIN FEE_CONFIG /\ transferType \in DOMAIN FEE_CONFIG[provider]
    THEN Some(FEE_CONFIG[provider][transferType])
    ELSE None

\* mutant: tiers are closed below and open above, [min, max)
FindTier_lowerInclusive(tiers, amount) ==
  LET hits == {i \in 1..Len(tiers) : amount >= tiers[i].min /\ amount < tiers[i].max}
  IN  IF hits = {} THEN None
      ELSE Some(tiers[CHOOSE i \in hits : \A j \in hits : i <= j])

\* schedule.tiers.find(t => amount > t.min && amount <= t.max)
FindTier(tiers, amount) ==
  LET hits == {i \in 1..Len(tiers) : amount > tiers[i].min /\ amount <= tiers[i].max}
  IN  IF hits = {} THEN None
      ELSE Some(tiers[CHOOSE i \in hits : \A j \in hits : i <= j])

\* mutant: an empty tier list is reported like a missing schedule
calculateFee_freeAsUnconfigured(provider, transferType, amount) ==
  LET schedule == ScheduleOf(provider, transferType) IN
  IF ~IsSome(schedule) \/ Len(Val(schedule).tiers) = 0
    THEN FeeResult(None, None, None, FALSE)
  ELSE LET tier == FindTier(Val(schedule).tiers, amount) IN
       FeeResult(IF IsSome(tier) THEN Some(Val(tier).fee) ELSE None,
                 Some(Val(schedule).payee), Val(schedule).category, TRUE)

calculateFee(provider, transferType, amount) ==
  LET schedule == ScheduleOf(provider, transferType) IN
  IF ~IsSome(schedule) THEN FeeResult(None, None, None, FALSE)
  ELSE LET s == Val(schedule) IN
    IF Len(s.tiers) = 0 THEN FeeResult(Some(0), Some(s.payee), s.category, TRUE)
    ELSE LET tier == FindTier(s.tiers, amount) IN
         IF ~IsSome(tier) THEN FeeResult(None, Some(s.payee), s.category, TRUE)
         ELSE FeeResult(Some(Val(tier).fee), Some(s.payee), s.category, TRUE)

senderToProvider(sender) ==
  LET s == ToLower(Chars(sender)) IN
  IF Includes(s, Chars("airtel")) THEN "airtel"
  ELSE IF Includes(s, Chars("mtn")) THEN "mtn"
  ELSE IF Includes(s, Chars("zamtel")) \/ Includes(s, Chars("zampay")) THEN "zamtel"
  ELSE IF Includes(s, Chars("absa")) THEN "absa"
  ELSE IF Includes(s, Chars("stanchart")) \/ Includes(s, Chars("standard chartered"))
    THEN "stanchart"
  ELSE "unknown"

getSmsNotificationFee(provider) ==
  IF provider \in DOMAIN SMS_NOTIFICATION_FEES
    THEN LET c == SMS_NOTIFICATION_FEES[provider] IN
         FeeResult(Some(c.fee), Some(c.payee), c.category, TRUE)
    ELSE FeeResult(None, None, None, FALSE)

\* mutant: a fee that is free (0) counts as a fee to charge
FeeIsCharged_zeroIncluded(fee) == IsSome(fee) /\ Val(fee) >= 0

\* the JavaScript test  fee && fee > 0  on a nullable number
FeeIsCharged(fee) == IsSome(fee) /\ Val(fee) # 0 /\ Val(fee) > 0

(***************************************************************************)
(* Time, timestamps and idempotency keys (parsers.ts).                     *)
(***************************************************************************)
MinPerDay == 24 * 60

\* Date.prototype.toISOString of the instant ts (minutes since the epoch of
\* the model): the calendar day and the time of day
Iso(ts) == <<ts \div MinPerDay, ts % MinPerDay>>

\* isoString.slice(0, 10): the calendar day alone
DateOnly(iso) == <<iso[1]>>

\* what the phone sends as receivedAt: nothing, a string Date can parse
\* (the instant it denotes is .at), or a string Date cannot parse
NoTimestamp == None
Parsable(ts) == Some([valid |-> TRUE, at |-> ts])
Unparsable == Some([valid |-> FALSE, at |-> 0])

\* mutant: the receipt timestamp is always the clock of the handler
normalizeDate_clockOnly(input, clock) == Iso(clock)

normalizeDate(input, clock) ==
  IF ~IsSome(input) THEN Iso(clock)
  ELSE IF ~Val(input).valid THEN Iso(clock)
  ELSE Iso(Val(input).at)

\* the number of hex digits kept from the SHA-256 digest
HexLength == 32

\* `sms:${hex.slice(0, 32)}` where hex is the digest of
\* `${sender}|${date}|${amountMilli}|${text}`; the digest stands for its text
makeImportId(sender, date, amountMilli, text) ==
  [tag |-> "sms:", hex |-> <<sender, "|", date, "|", amountMilli, "|", text>>]

\* the longest import_id the ledger takes
MaxImportIdLength == 36

\* importId.length
ImportIdLength(id) == Len(id.tag) + HexLength

\* mutant: the fee key is the primary key unchanged
ReplaceTag_keepsTag(id, tag) == id

\* importId.replace(/^sms:/, tag)
ReplaceTag(id, tag) == IF id.tag = "sms:" THEN [id EXCEPT !.tag = tag] ELSE id

(***************************************************************************)
(* The directory cache (ynab-lookup.ts).                                   *)
(***************************************************************************)
MsPerMinute == 60 * 1000
\* CACHE_TTL_MS, in minutes
CACHE_TTL == (5 * 60 * 1000) \div MsPerMinute

Entry(id, name, deleted) == [id |-> id, name |-> name, deleted |-> deleted]

\* mutant: a snapshot as old as the TTL still counts as valid
isCacheValid_inclusive(c, clock) ==
  IF ~IsSome(c) THEN FALSE ELSE clock - Val(c).fetchedAt <= CACHE_TTL

isCacheValid(c, clock) ==
  IF ~IsSome(c) THEN FALSE ELSE clock - Val(c).fetchedAt < CACHE_TTL

\* entries.find(e => e.name.toLowerCase() === lower && !e.deleted)
FindByName(entries, name) ==
  LET hits == {i \in 1..Len(entries) :
                 SameNameIgnoringCase(entries[i].name, name) /\ ~entries[i].deleted}
  IN  IF hits = {} THEN None
      ELSE Some(entries[CHOOSE i \in hits : \A j \in hits : i <= j])

\* mutant: a soft-deleted payee still matches
findPayeeByName_withDeleted(c, name) ==
  IF ~IsSome(c) THEN None
  ELSE LET hits == {i \in 1..Len(Val(c).payees) :
                      SameNameIgnoringCase(Val(c).payees[i].name, name)}
       IN  IF hits = {} THEN None
           ELSE Some(Val(c).payees[CHOOSE i \in hits : \A j \in hits : i <= j])

findAccountByName(c, name) ==
  IF ~IsSome(c) THEN None ELSE FindByName(Val(c).accounts, name)

findCategoryByName(c, name) ==
  IF ~IsSome(c) THEN None ELSE FindByName(Val(c).categories, name)

findPayeeByName(c, name) ==
  IF ~IsSome(c) THEN None ELSE FindByName(Val(c).payees, name)

\* found?.id
IdOf(found) == IF IsSome(found) THEN Some(Val(found).id) ELSE None

getAccountIdByName(c, name) == IdOf(findAccountByName(c, name))

getCategoryIdByName(c, name) == IdOf(findCategoryByName(c, name))

getPayeeIdByName(c, name) == IdOf(findPayeeByName(c, name))

\* a nullable string used as a condition: null and "" are falsy
Truthy(o) == IsSome(o) /\ Val(o) # ""

\* name ? getCategoryIdByName(name) : undefined
CategoryIdOrNone(c, name) ==
  IF Truthy(name) THEN getCategoryIdByName(c, Val(name)) ELSE None

\* name ? getPayeeIdByName(name) : undefined
PayeeIdOrNone(c, name) ==
  IF Truthy(name) THEN getPayeeIdByName(c, Val(name)) ELSE None

(***************************************************************************)
(* Account routing (routing.ts).                                           *)
(***************************************************************************)
\* the regular expression /ending\s+(\d{4})/i matches at position i of cs
\* with k white-space characters between the word and the digits
EndingMatchAt(cs, i, k) ==
  /\ k >= 1
  /\ i + 5 + k + 4 <= Len(cs)
  /\ \A j \in 1..6 : LowerChar(cs[i + j - 1]) = Chars("ending")[j]
  /\ \A j \in 1..k : cs[i + 5 + j] \in Whitespace
  /\ \A j \in 1..4 : cs[i + 5 + k + j] \in Digits

\* text.match(/ending\s+(\d{4})/i)?.[1]: the four digits of the leftmost match
extractAccountEnding(text) ==
  LET cs == Chars(text)
      hits == {i \in 1..Len(cs) : \E k \in 1..Len(cs) : EndingMatchAt(cs, i, k)}
  IN  IF hits = {} THEN None
      ELSE LET i == CHOOSE x \in hits : \A y \in hits : x <= y
               k == CHOOSE x \in 1..Len(cs) : EndingMatchAt(cs, i, x)
           IN  Some(SubSeq(cs, i + 6 + k, i + 9 + k))

RoutingResult(accountId, accountName, source) ==
  [accountId |-> accountId, accountName |-> accountName, source |-> source]

\* mutant: the sender mapping is consulted before the ending hint
ResolveByHints_senderFirst(c, text, sender) ==
  LET ending == extractAccountEnding(text)
      byEnding == IF IsSome(ending) THEN getAccountNameByEnding(Val(ending)) ELSE None
      endingId == IF Truthy(byEnding) THEN getAccountIdByName(c, Val(byEnding)) ELSE None
      bySender == IF sender # "" THEN getAccountNameBySender(sender) ELSE None
      senderId == IF Truthy(bySender) THEN getAccountIdByName(c, Val(bySender)) ELSE None
  IN  IF IsSome(senderId) THEN Some(RoutingResult(senderId, bySender, "sender_mapping"))
      ELSE IF IsSome(endingId) THEN Some(RoutingResult(endingId, byEnding, "ending_hint"))
      ELSE None

\* resolveAccountId up to the call of ensureFallbackAccount:
\* the ending hint first, then the sender mapping, else nothing
ResolveByHints(c, text, sender) ==
  LET ending == extractAccountEnding(text)
      byEnding == IF IsSome(ending) THEN getAccountNameByEnding(Val(ending)) ELSE None
      endingId == IF Truthy(byEnding) THEN getAccountIdByName(c, Val(byEnding)) ELSE None
      bySender == IF sender # "" THEN getAccountNameBySender(sender) ELSE None
      senderId == IF Truthy(bySender) THEN getAccountIdByName(c, Val(bySender)) ELSE None
  IN  IF IsSome(endingId) THEN Some(RoutingResult(endingId, byEnding, "ending_hint"))
      ELSE IF IsSome(senderId) THEN Some(RoutingResult(senderId, bySender, "sender_mapping"))
      ELSE None

\* ensureFallbackAccount when the fallback account is in the cache
FallbackExisting(c) ==
  LET existing == findAccountByName(c, FALLBACK_ACCOUNT_NAME) IN
  IF IsSome(existing)
    THEN Some(RoutingResult(Some(Val(existing).id), Some(FALLBACK_ACCOUNT_NAME),
                            "fallback_existing"))
    ELSE None

(***************************************************************************)
(* The handler's own helpers (sms-webhook/index.ts).                       *)
(***************************************************************************)
\* the characters of cs that are not in the set drop, in order
RECURSIVE Without(_, _)
Without(cs, drop) ==
  IF cs = <<>> THEN <<>>
  ELSE IF Head(cs) \in drop THEN Without(Tail(cs), drop)
  ELSE <<Head(cs)>> \o Without(Tail(cs), drop)

\* "0" + prefix for the prefixes listed with a leading zero
MobileMoneyPrefixes ==
  { <<"0">> \o Chars(p) : p \in {"97", "77", "96", "76", "95", "75"} }
    \cup { Chars(p) : p \in {"97", "77", "96", "76", "95", "75"} }

determineTransferTypeFromPhone(phone) ==
  LET stripped == Without(Chars(phone), Whitespace \cup {"-"})
      cleaned == IF StartsWith(stripped, Chars("260"))
                   THEN SubSeq(stripped, 4, Len(stripped)) ELSE stripped
  IN  IF \E prefix \in MobileMoneyPrefixes : StartsWith(cleaned, prefix)
        THEN "to_mobile" ELSE "unknown"

\* mutant: entries are submitted as already approved
Transaction_approved(accountId, date, amount, memo, importId, payeeId, payeeName, categoryId) ==
  [account_id |-> accountId, date |-> date, amount |-> amount, memo |-> memo,
   cleared |-> "cleared", approved |-> TRUE, import_id |-> importId,
   payee_id |-> payeeId, payee_name |-> payeeName, category_id |-> categoryId]

\* the literal every ledger entry is built from: cleared, never approved
Transaction(accountId, date, amount, memo, importId, payeeId, payeeName, categoryId) ==
  [account_id |-> accountId, date |-> date, amount |-> amount, memo |-> memo,
   cleared |-> "cleared", approved |-> FALSE, import_id |-> importId,
   payee_id |-> payeeId, payee_name |-> payeeName, category_id |-> categoryId]

YnabResult(sent, reason, detail) ==
  [sent |-> sent, reason |-> reason, detail |-> detail, status |-> 200]

\* the promise of the handler is rejected: the platform answers 500
Unhandled == [sent |-> FALSE, reason |-> "unhandled rejection", detail |-> None,
              status |-> 500]

(***************************************************************************)
(* Bounds and the inputs the model draws from.                             *)
(***************************************************************************)
\* invocations of the webhook in one behaviour
MaxRuns == 2
\* advances of the clock in one behaviour
MaxTicks == 1
\* how often a handler that waits is overtaken by the other one
MaxSwitches == 2
\* minutes the clock advances at a time: more than the cache TTL and the
\* correlation window
TickMinutes == CACHE_TTL + 1
\* the clock at deployment, 23:52 of day 0
Start == 23 * 60 + 52

\* the default of withinMinutes in findRecentPrimaryTransactions
CorrelationWindow == 5

\* receipt timestamps a phone reports: 23:50 and 23:54 of day 0, or garbage
Timestamps == {Parsable(Start - 2), Parsable(Start + 2), Unparsable}

\* the classifier's output (GeminiParsedSms)
Ai(isTx, reason, amount, direction, payee, category, transferType, followUp, phone) ==
  [is_transaction |-> isTx, reason |-> reason, amount |-> amount,
   direction |-> direction, payee |-> payee, category |-> category,
   transfer_type |-> transferType, is_follow_up |-> followUp,
   recipient_phone |-> phone, memo |-> None, transaction_ref |-> None]

AiNotTransaction ==
  Ai(FALSE, "promotional", Some(K(5000, 0)), None, None, None, None, FALSE, None)
AiSameNetwork ==
  Ai(TRUE, "", Some(K(100, 0)), Some("outflow"), Some("JOHN DOE"), Some("groceries"),
     Some("same_network"), FALSE, None)
AiInflow ==
  Ai(TRUE, "", Some(K(100, 0)), Some("inflow"), Some("Jane"), None,
     Some("same_network"), FALSE, None)
AiAirtime ==
  Ai(TRUE, "", Some(K(100, 0)), Some("outflow"), None, None,
     Some("airtime"), FALSE, None)
AiOutsideTiers ==
  Ai(TRUE, "", Some(K(20000, 0)), Some("outflow"), None, None,
     Some("same_network"), FALSE, None)
AiToMobile ==
  Ai(TRUE, "", Some(K(100, 0)), Some("outflow"), Some("Old Shop"), None,
     Some("to_mobile"), FALSE, None)
AiNoType ==
  Ai(TRUE, "", Some(K(100, 0)), Some("outflow"), Some("Old Shop"), Some("Fees"),
     None, FALSE, None)
AiNoDirection ==
  Ai(TRUE, "", Some(K(100, 0)), None, None, None, None, FALSE, None)
AiNoAmount ==
  Ai(TRUE, "", None, Some("outflow"), Some("JOHN DOE"), None, Some("airtime"), FALSE, None)
AiFollowUpPhone ==
  Ai(TRUE, "", None, None, None, None, None, TRUE, Some("0770284890"))
AiFollowUpTyped ==
  Ai(TRUE, "", None, None, None, None, Some("withdrawal"), TRUE, None)

Message(sender, text, ai) == [sender |-> sender, text |-> text, ai |-> ai]

\* the messages of the model, each with a classification it can receive
Messages ==
  { Message("AirtelMoney", "Sent ZMW 100 to John", ai) :
      ai \in {AiNotTransaction, AiSameNetwork, AiInflow, AiAirtime, AiOutsideTiers} }
  \cup
  { Message("Absa", "Debit on acct Ending 4983", ai) :
      ai \in {AiToMobile, AiNoType, AiNoDirection, AiFollowUpPhone, AiFollowUpTyped} }
  \cup
  { Message("MTN", "Sent ZMW 100 to John", ai) : ai \in {AiAirtime, AiNoAmount} }

\* the ledger's directory at deployment
Accounts ==
  << Entry("acct-airtel", "Airtel Money", FALSE),
     Entry("acct-absa", "absa current", FALSE),
     Entry("acct-savings", "Absa Savings", TRUE) >>
Categories ==
  << Entry("cat-fees", "Fees", FALSE), Entry("cat-groceries", "Groceries", FALSE) >>
Payees ==
  << Entry("payee-old", "Old Shop", TRUE), Entry("payee-john", "John Doe", FALSE),
     Entry("payee-airtel", "Airtel", FALSE), Entry("payee-absa", "Absa", FALSE) >>

\* identifiers the ledger gives to the accounts it creates
NewAccountIds == <<"acct-new-1", "acct-new-2", "acct-new-3", "acct-new-4">>

(***************************************************************************)
(* State.                                                                  *)
(***************************************************************************)
VARIABLES
  revision,   \* the revision of sms-webhook/index.ts that is deployed
  supabase,   \* SUPABASE_URL and SUPABASE_SERVICE_ROLE_KEY are both set
  now,        \* the clock, in minutes
  ticks,      \* how often the clock has advanced
  cache,      \* the module variable cache of ynab-lookup.ts
  ynab,       \* the ledger: its directory and the transactions it stored
  store,      \* the sms_context table
  run,        \* the invocation in progress: its position and its locals
  calls,      \* every request made to the ledger, in order
  history,    \* the invocations that have returned, with their results
  feeArgs,    \* arguments of a calculateFee call
  feeReturned, \* what the call returned
  lookupArgs, \* arguments of a name lookup in the cache
  lookupReturned, \* what the lookup returned
  parked,     \* a second invocation, suspended at an await while run executes
  switches    \* how often a waiting handler has let the other one go on

vars == <<revision, supabase, now, ticks, cache, ynab, store, run, calls, history,
          feeArgs, feeReturned, lookupArgs, lookupReturned, parked, switches>>

feeVars == <<feeArgs, feeReturned>>

lookupVars == <<lookupArgs, lookupReturned>>

Idle ==
  [pc |-> "idle", id |-> 0, sender |-> "", text |-> "", receivedAtRaw |-> None,
   receivedAtIso |-> Iso(0), ai |-> None,
   routing |-> RoutingResult(None, None, "none"),
   payeeId |-> None, categoryId |-> None, importId |-> None,
   primaryTxn |-> None, transferType |-> None, feeInfo |-> FALSE, smsFeeInfo |-> FALSE,
   fetched |-> [op \in {} |-> << >>]]

InitCommon ==
  /\ now = Start
  /\ ticks = 0
  /\ cache = None
  /\ ynab = [accounts |-> Accounts, categories |-> Categories, payees |-> Payees,
             transactions |-> <<>>]
  /\ store = <<>>
  /\ run = Idle
  /\ calls = <<>>
  /\ history = <<>>
  /\ lookupArgs = None
  /\ lookupReturned = None
  /\ parked = Idle
  /\ switches = 0

\* the handler with fees (placeholder revision) or with fees and the
\* correlation of follow-up messages (correlation revision)
Init ==
  /\ revision \in {"placeholder", "correlation"}
  /\ supabase \in BOOLEAN
  /\ revision = "placeholder" => supabase = FALSE
  /\ InitCommon
  /\ feeArgs = None
  /\ feeReturned = None

\* the earlier handler without fees
InitLegacy ==
  /\ revision = "legacy"
  /\ supabase = FALSE
  /\ InitCommon
  /\ feeArgs = None
  /\ feeReturned = None

(***************************************************************************)
(* The ledger and the correlation store, as the handler sees them.         *)
(***************************************************************************)
Call(id, op, body, ok) == [run |-> id, op |-> op, body |-> body, ok |-> ok]

\* the directory requests of the ledger client
ListOps == {"listAccounts", "listCategories", "listPayees"}

\* the three list requests of one cache refresh (Promise.all issues them
\* together); failed is the set of those the ledger did not answer
ListCalls(id, failed) ==
  << Call(id, "listAccounts", None, "listAccounts" \notin failed),
     Call(id, "listCategories", None, "listCategories" \notin failed),
     Call(id, "listPayees", None, "listPayees" \notin failed) >>

\* the ledger skips an entry whose import_id it already holds
\* (it answers with duplicate_import_ids)
Stored(transactions, tx) ==
  IF \E i \in 1..Len(transactions) : transactions[i].import_id = tx.import_id
    THEN transactions ELSE Append(transactions, tx)

\* createTransaction answered: the request is logged and the entry stored
Accepted(kind, tx) ==
  /\ calls' = Append(calls, Call(run.id, kind, Some(tx), TRUE))
  /\ ynab' = [ynab EXCEPT !.transactions = Stored(@, tx)]

\* createTransaction threw: the request is logged, nothing is stored
Rejected(kind, tx) ==
  /\ calls' = Append(calls, Call(run.id, kind, Some(tx), FALSE))
  /\ UNCHANGED ynab

\* the instant an ISO timestamp denotes
Instant(iso) == iso[1] * MinPerDay + iso[2]

\* PostgREST ilike: case-insensitive, _ in the pattern matches any character
Ilike(value, pattern) ==
  LET v == ToLower(Chars(value))
      q == ToLower(Chars(pattern))
  IN  /\ Len(v) = Len(q)
      /\ \A i \in 1..Len(v) : q[i] = "_" \/ q[i] = v[i]

\* rows findRecentPrimaryTransactions selects for the sender at the clock
\* the query without its fee_applied filter
RecentPrimary_withApplied(sender, clock) ==
  {i \in 1..Len(store) :
     /\ Ilike(store[i].sender, sender)
     /\ store[i].is_primary
     /\ Instant(store[i].received_at) >= clock - CorrelationWindow}

RecentPrimary(sender, clock) ==
  {i \in 1..Len(store) :
     /\ Ilike(store[i].sender, sender)
     /\ store[i].is_primary
     /\ ~store[i].fee_applied
     /\ Instant(store[i].received_at) >= clock - CorrelationWindow}

\* the rows that can come first under order=received_at.desc
Latest(rows) ==
  {i \in rows : \A j \in rows : Instant(store[j].received_at) <= Instant(store[i].received_at)}

(***************************************************************************)
(* One invocation of the webhook, step by step (processWithYnab).          *)
(***************************************************************************)
envVars == <<revision, supabase, now, ticks>>

\* the invocation returns: its result is recorded and the handler is free
Finish(r, result) ==
  /\ run' = Idle
  /\ history' = Append(history,
       [id |-> r.id, sender |-> r.sender, text |-> r.text,
        receivedAtRaw |-> r.receivedAtRaw, receivedAtIso |-> r.receivedAtIso,
        ai |-> r.ai, routing |-> r.routing, importId |-> r.importId,
        primaryTxn |-> r.primaryTxn,
        fee |-> r.feeInfo, sms_fee |-> r.smsFeeInfo, result |-> result])

Proceed(r, pc) ==
  /\ run' = [r EXCEPT !.pc = pc]
  /\ UNCHANGED history

\* Deno.serve: the payload is normalised and processWithYnab is entered
Receive(m, raw) ==
  /\ run.pc = "idle"
  /\ Len(history) < MaxRuns
  /\ run' = [Idle EXCEPT !.pc = IF revision = "legacy" THEN "classify" ELSE "ensureCache",
                         !.id = Len(history) + 1,
                         !.sender = m.sender, !.text = m.text,
                         !.receivedAtRaw = raw,
                         !.receivedAtIso = normalizeDate(raw, now)]
  /\ UNCHANGED <<envVars, parked, switches, lookupVars, cache, ynab, store, calls, history, feeVars>>

AfterCache == IF revision = "legacy" THEN "route" ELSE "classify"

\* ensureCache with a valid cache: nothing is fetched
EnsureCacheHit ==
  /\ run.pc = "ensureCache"
  /\ isCacheValid(cache, now)
  /\ Proceed(run, AfterCache)
  /\ UNCHANGED <<envVars, parked, switches, lookupVars, cache, ynab, store, calls, feeVars>>

\* the reason each revision returns when ensureCache throws
CacheFailureReason ==
  CASE revision = "legacy" -> "Failed to fetch YNAB accounts/categories"
    [] revision = "placeholder" -> "Failed to fetch YNAB data"
    [] OTHER -> "Failed to fetch YNAB accounts/categories/payees"

\* mutant: the lists that were answered are installed although one failed
EnsureCacheFetch_partial ==
  /\ run.pc = "ensureCache"
  /\ ~isCacheValid(cache, now)
  /\ \/ /\ cache' = Some([accounts |-> ynab.accounts, categories |-> ynab.categories,
                          payees |-> ynab.payees, fetchedAt |-> now])
        /\ calls' = calls \o ListCalls(run.id, {})
        /\ Proceed(run, AfterCache)
     \/ \E failed \in (SUBSET ListOps) \ {{}} :
          /\ calls' = calls \o ListCalls(run.id, failed)
          /\ Finish(run, YnabResult(FALSE, CacheFailureReason, Some("error")))
          /\ cache' = Some([accounts |-> IF "listAccounts" \in failed THEN <<>> ELSE ynab.accounts,
                            categories |-> IF "listCategories" \in failed THEN <<>> ELSE ynab.categories,
                            payees |-> IF "listPayees" \in failed THEN <<>> ELSE ynab.payees,
                            fetchedAt |-> now])
  /\ UNCHANGED <<envVars, parked, switches, lookupVars, ynab, store, feeVars>>

\* ensureCache with no cache or an expired one: the three lists are fetched
EnsureCacheFetch ==
  /\ run.pc = "ensureCache"
  /\ ~isCacheValid(cache, now)
  /\ \/ /\ cache' = Some([accounts |-> ynab.accounts, categories |-> ynab.categories,
                          payees |-> ynab.payees, fetchedAt |-> now])
        /\ calls' = calls \o ListCalls(run.id, {})
        /\ Proceed(run, AfterCache)
     \/ \E failed \in (SUBSET ListOps) \ {{}} :
          /\ calls' = calls \o ListCalls(run.id, failed)
          /\ Finish(run, YnabResult(FALSE, CacheFailureReason, Some("error")))
          /\ UNCHANGED cache
  /\ UNCHANGED <<envVars, parked, switches, lookupVars, ynab, store, feeVars>>

\* mutant: the classifier's reason is dropped from the skipped result
NotATransaction_withoutReason(ai) == YnabResult(FALSE, "Not a transaction", None)

\* the result of a run whose message is not a transaction
NotATransaction(ai) == YnabResult(FALSE, "Not a transaction", Some(ai.reason))

\* mutant: a classification without a direction is processed like any other
Classify_unchecked ==
  /\ run.pc = "classify"
  /\ \/ \E ai \in {m.ai : m \in {x \in Messages : x.sender = run.sender /\ x.text = run.text}} :
          LET r == [run EXCEPT !.ai = Some(ai)] IN
          IF ~ai.is_transaction THEN Finish(r, NotATransaction(ai))
          ELSE IF revision = "correlation" /\ ai.is_follow_up
            THEN IF ~supabase
                   THEN Finish(r, YnabResult(FALSE,
                          "Follow-up SMS cannot be correlated (Supabase not configured)", None))
                   ELSE Proceed(r, "findMatch")
          ELSE IF ~IsSome(ai.amount)
            THEN Finish(r, YnabResult(FALSE, "AI could not extract amount", None))
          ELSE Proceed(r, IF revision = "legacy" THEN "ensureCache" ELSE "route")
     \/ Finish(run, YnabResult(FALSE, "AI parsing failed", Some("error")))
  /\ UNCHANGED <<envVars, parked, switches, lookupVars, cache, ynab, store, calls, feeVars>>

\* parseWithGemini and the checks on what it returned
Classify ==
  /\ run.pc = "classify"
  /\ \/ \E ai \in {m.ai : m \in {x \in Messages : x.sender = run.sender /\ x.text = run.text}} :
          LET r == [run EXCEPT !.ai = Some(ai)] IN
          IF ~ai.is_transaction THEN Finish(r, NotATransaction(ai))
          ELSE IF revision = "correlation" /\ ai.is_follow_up
            THEN IF ~supabase
                   THEN Finish(r, YnabResult(FALSE,
                          "Follow-up SMS cannot be correlated (Supabase not configured)", None))
                   ELSE Proceed(r, "findMatch")
          ELSE IF ~IsSome(ai.amount)
            THEN Finish(r, YnabResult(FALSE, "AI could not extract amount", None))
          ELSE IF ~Truthy(ai.direction)
            THEN Finish(r, YnabResult(FALSE, "AI could not determine direction", None))
          ELSE Proceed(r, IF revision = "legacy" THEN "ensureCache" ELSE "route")
     \/ Finish(run, YnabResult(FALSE, "AI parsing failed", Some("error")))
  /\ UNCHANGED <<envVars, parked, switches, lookupVars, cache, ynab, store, calls, feeVars>>

\* aiParsed.transfer_type, or what the recipient's phone number tells
FollowUpTransferType(ai) ==
  IF (~Truthy(ai.transfer_type) \/ ai.transfer_type = Some("unknown"))
       /\ Truthy(ai.recipient_phone)
    THEN Some(determineTransferTypeFromPhone(Val(ai.recipient_phone)))
    ELSE ai.transfer_type

\* the fee of a follow-up for the primary row it was matched with
CorrelatedFee(sender, transferType, primaryTxn) ==
  calculateFee(senderToProvider(sender), transferType,
               IF IsSome(primaryTxn.amount) THEN Val(primaryTxn.amount) ELSE 0)

\* follow-up branch: findMatchingTransaction and the decision on the fee
\* a lookup that takes no notice of the amount
findMatchingTransaction_ignoresAmount(sender, amount, clock) ==
  Latest(RecentPrimary(sender, clock))

\* findMatchingTransaction: the rows it can return (none: null); rows come
\* most recent first, rows received at the same time in either order
findMatchingTransaction(sender, amount, clock) ==
  LET records == RecentPrimary(sender, clock)
      matches == {i \in records : IsSome(amount) /\ store[i].amount = amount}
  IN  IF matches # {} THEN Latest(matches) ELSE Latest(records)

\* a branch that marks the record although no fee is due
FindMatch_marksUnpaid ==
  /\ run.pc = "findMatch"
  /\ \/ Finish(run, Unhandled)
     \/ /\ RecentPrimary(run.sender, now) = {}
        /\ Finish(run, YnabResult(FALSE,
             "Follow-up SMS but no primary transaction found to correlate", None))
     \/ \E i \in findMatchingTransaction(run.sender, None, now) :
          LET primaryTxn == store[i]
              transferType == FollowUpTransferType(Val(run.ai))
              r == [run EXCEPT !.primaryTxn = Some(primaryTxn),
                               !.transferType = transferType]
          IN  IF Truthy(transferType) /\ transferType # Some("unknown")
                   /\ Truthy(primaryTxn.ynab_account_id)
                THEN IF FeeIsCharged(CorrelatedFee(run.sender, Val(transferType),
                                                   primaryTxn).fee)
                       THEN Proceed(r, "postCorrelatedFee")
                       ELSE Proceed(r, "markFeeApplied")
                ELSE Finish(r, YnabResult(FALSE,
                       "Follow-up SMS processed but no action needed", None))
  /\ UNCHANGED <<envVars, parked, switches, lookupVars, cache, ynab, store, calls, feeVars>>

FindMatch ==
  /\ run.pc = "findMatch"
  /\ \/ Finish(run, Unhandled)
     \/ /\ RecentPrimary(run.sender, now) = {}
        /\ Finish(run, YnabResult(FALSE,
             "Follow-up SMS but no primary transaction found to correlate", None))
     \/ \E i \in findMatchingTransaction(run.sender, None, now) :
          LET primaryTxn == store[i]
              transferType == FollowUpTransferType(Val(run.ai))
              r == [run EXCEPT !.primaryTxn = Some(primaryTxn),
                               !.transferType = transferType]
          IN  IF Truthy(transferType) /\ transferType # Some("unknown")
                   /\ Truthy(primaryTxn.ynab_account_id)
                THEN IF FeeIsCharged(CorrelatedFee(run.sender, Val(transferType),
                                                   primaryTxn).fee)
                       THEN Proceed(r, "postCorrelatedFee")
                       ELSE Finish(r, YnabResult(FALSE,
                              "Follow-up correlated but no fee configured for transfer type",
                              None))
                ELSE Finish(r, YnabResult(FALSE,
                       "Follow-up SMS processed but no action needed", None))
  /\ UNCHANGED <<envVars, parked, switches, lookupVars, cache, ynab, store, calls, feeVars>>

\* mutant: the key of a correlated fee is always minted from the clock
CorrelatedFeeImportId_clock(primaryTxn, clock) ==
  [tag |-> "xfr:", hex |-> <<"Date.now", "|", Iso(clock), "|", 0, "|", "">>]

\* primaryTxn.import_id?.replace(/^sms:/, "xfr:") ?? `xfr:${Date.now()}`
CorrelatedFeeImportId(primaryTxn, clock) ==
  IF IsSome(primaryTxn.import_id) THEN ReplaceTag(Val(primaryTxn.import_id), "xfr:")
  ELSE [tag |-> "xfr:", hex |-> <<"Date.now", "|", Iso(clock), "|", 0, "|", "">>]

\* a fee entry: always an outflow of the fee, payee and category if cached
FeeTransaction(accountId, iso, feeResult, memo, importId) ==
  Transaction(accountId, DateOnly(iso), -toMilliunits(Val(feeResult.fee)), memo, importId,
              PayeeIdOrNone(cache, feeResult.payee), None,
              CategoryIdOrNone(cache, feeResult.category))

CorrelatedFeeTransaction ==
  LET primaryTxn == Val(run.primaryTxn)
      feeResult == CorrelatedFee(run.sender, Val(run.transferType), primaryTxn)
  IN  FeeTransaction(Val(primaryTxn.ynab_account_id), run.receivedAtIso, feeResult,
                     <<"Transfer Fee", Val(run.transferType), primaryTxn.import_id>>,
                     CorrelatedFeeImportId(primaryTxn, now))

\* follow-up branch: the fee of the matched primary is posted
PostCorrelatedFee ==
  /\ run.pc = "postCorrelatedFee"
  /\ \/ /\ Accepted("xfr", CorrelatedFeeTransaction)
        /\ IF Val(run.primaryTxn).id # 0
             THEN Proceed(run, "markFeeApplied")
             ELSE Finish([run EXCEPT !.feeInfo = TRUE],
                    YnabResult(TRUE, "Correlated fee created from follow-up SMS", None))
     \/ /\ Rejected("xfr", CorrelatedFeeTransaction)
        /\ Finish(run, YnabResult(FALSE, "Failed to create correlated fee transaction",
                                  Some("error")))
  /\ UNCHANGED <<envVars, parked, switches, lookupVars, cache, store, feeVars>>

\* mutant: the update of the matched row is sent as an insert of a new row
MarkFeeApplied_insert ==
  /\ run.pc = "markFeeApplied"
  /\ \/ /\ store' = Append(store, [Val(run.primaryTxn) EXCEPT !.fee_applied = TRUE])
        /\ Finish([run EXCEPT !.feeInfo = TRUE],
                  YnabResult(TRUE, "Correlated fee created from follow-up SMS", None))
     \/ /\ UNCHANGED store
        /\ Finish(run, YnabResult(FALSE, "Failed to create correlated fee transaction",
                                  Some("error")))
  /\ UNCHANGED <<envVars, parked, switches, lookupVars, cache, ynab, calls, feeVars>>

\* follow-up branch: markFeeApplied on the matched row
MarkFeeApplied ==
  /\ run.pc = "markFeeApplied"
  /\ \/ /\ store' = [i \in 1..Len(store) |->
                       IF store[i].id = Val(run.primaryTxn).id
                         THEN [store[i] EXCEPT !.fee_applied = TRUE] ELSE store[i]]
        /\ Finish([run EXCEPT !.feeInfo = TRUE],
                  YnabResult(TRUE, "Correlated fee created from follow-up SMS", None))
     \/ /\ UNCHANGED store
        /\ Finish(run, YnabResult(FALSE, "Failed to create correlated fee transaction",
                                  Some("error")))
  /\ UNCHANGED <<envVars, parked, switches, lookupVars, cache, ynab, calls, feeVars>>

\* categoryMappings of the legacy handler (emoji prefixes written as *)
categoryMappings ==
  << <<"Airtime", "* Data / Airtime">>, <<"Data", "* Data / Airtime">>,
     <<"Transfer", "Transfer">>, <<"Groceries", "* Groceries">>,
     <<"Utilities", "* Utilities">>, <<"Cash Withdrawal", "* Cash">> >>

\* the category of the primary entry (the legacy handler reads the
\* classifier's category from category_hint and tries categoryMappings)
PrimaryCategoryId(ai) ==
  LET direct == CategoryIdOrNone(cache, ai.category)
      rows == {i \in 1..Len(categoryMappings) : Some(categoryMappings[i][1]) = ai.category}
  IN  IF revision = "legacy" /\ Truthy(ai.category) /\ ~IsSome(direct) /\ rows # {}
        THEN getCategoryIdByName(cache, categoryMappings[CHOOSE i \in rows : TRUE][2])
        ELSE direct

\* routing succeeded: category and payee are looked up in the cache
Routed(routing) ==
  Proceed([run EXCEPT !.routing = routing,
                      !.categoryId = PrimaryCategoryId(Val(run.ai)),
                      !.payeeId = PayeeIdOrNone(cache, Val(run.ai).payee)],
          "postPrimary")

\* accounts the ledger has created on request
CreatedAccounts ==
  {i \in 1..Len(ynab.accounts) :
     \E k \in 1..Len(NewAccountIds) : ynab.accounts[i].id = NewAccountIds[k]}

\* the request body of createAccount for the fallback account
FallbackAccountInput == [name |-> FALLBACK_ACCOUNT_NAME, type |-> "checking", balance |-> 0]

\* the reason each revision returns when routing gave no account
NoAccountReason ==
  IF revision = "placeholder" THEN "No account resolved"
  ELSE "No account resolved or creatable"

\* mutant: the handler goes on to the primary entry without an account
Route_ignoresFailure ==
  /\ run.pc = "route"
  /\ LET hinted == ResolveByHints(cache, run.text, run.sender)
         existing == FallbackExisting(cache)
         newId == NewAccountIds[Cardinality(CreatedAccounts) + 1]
     IN  IF IsSome(hinted) THEN Routed(Val(hinted)) /\ UNCHANGED <<ynab, calls>>
         ELSE IF IsSome(existing) THEN Routed(Val(existing)) /\ UNCHANGED <<ynab, calls>>
         ELSE \/ /\ Cardinality(CreatedAccounts) < Len(NewAccountIds)
                 /\ ynab' = [ynab EXCEPT !.accounts =
                               Append(@, Entry(newId, FALLBACK_ACCOUNT_NAME, FALSE))]
                 /\ calls' = Append(calls,
                      Call(run.id, "createAccount", Some(FallbackAccountInput), TRUE))
                 /\ Routed(RoutingResult(Some(newId), Some(FALLBACK_ACCOUNT_NAME),
                                         "fallback_created"))
              \/ /\ calls' = Append(calls,
                      Call(run.id, "createAccount", Some(FallbackAccountInput), FALSE))
                 /\ UNCHANGED ynab
                 /\ Routed(RoutingResult(None, None, "failed"))
  /\ UNCHANGED <<envVars, parked, switches, lookupVars, cache, store, feeVars>>

\* resolveAccountId, with ensureFallbackAccount
Route ==
  /\ run.pc = "route"
  /\ LET hinted == ResolveByHints(cache, run.text, run.sender)
         existing == FallbackExisting(cache)
         newId == NewAccountIds[Cardinality(CreatedAccounts) + 1]
     IN  IF IsSome(hinted) THEN Routed(Val(hinted)) /\ UNCHANGED <<ynab, calls>>
         ELSE IF IsSome(existing) THEN Routed(Val(existing)) /\ UNCHANGED <<ynab, calls>>
         ELSE \/ /\ Cardinality(CreatedAccounts) < Len(NewAccountIds)
                 /\ ynab' = [ynab EXCEPT !.accounts =
                               Append(@, Entry(newId, FALLBACK_ACCOUNT_NAME, FALSE))]
                 /\ calls' = Append(calls,
                      Call(run.id, "createAccount", Some(FallbackAccountInput), TRUE))
                 /\ Routed(RoutingResult(Some(newId), Some(FALLBACK_ACCOUNT_NAME),
                                         "fallback_created"))
              \/ /\ calls' = Append(calls,
                      Call(run.id, "createAccount", Some(FallbackAccountInput), FALSE))
                 /\ UNCHANGED ynab
                 /\ Finish([run EXCEPT !.routing = RoutingResult(None, None, "failed")],
                           YnabResult(FALSE, NoAccountReason, None))
  /\ UNCHANGED <<envVars, parked, switches, lookupVars, cache, store, feeVars>>

\* the idempotency key of the primary entry: the legacy handler hashes the
\* calendar day, the later revisions the full timestamp
\* a key that carries the invocation's own number
PrimaryImportId_perInvocation(r) ==
  [makeImportId(r.sender, r.receivedAtIso, toMilliunits(Val(Val(r.ai).amount)), r.text)
     EXCEPT !.hex = Append(@, r.id)]

PrimaryImportId(r) ==
  makeImportId(r.sender,
               IF revision = "legacy" THEN DateOnly(r.receivedAtIso) ELSE r.receivedAtIso,
               toMilliunits(Val(Val(r.ai).amount)), r.text)

\* aiParsed.memo ?? text.slice(0, 200)
PrimaryMemo(r) == IF IsSome(Val(r.ai).memo) THEN Val(Val(r.ai).memo) ELSE r.text

\* the primary entry; only the legacy handler sends a payee name
PrimaryTransaction(r) ==
  LET ai == Val(r.ai) IN
  Transaction(Val(r.routing.accountId), DateOnly(r.receivedAtIso),
              toMilliunits(Val(ai.amount)) * getSign(ai.direction),
              PrimaryMemo(r), PrimaryImportId(r),
              IF revision = "legacy" THEN None ELSE r.payeeId,
              IF revision = "legacy" THEN ai.payee ELSE None,
              r.categoryId)

\* calculateFee for the message of the run
TransferFeeResult(r) ==
  calculateFee(senderToProvider(r.sender), Val(Val(r.ai).transfer_type),
               Val(Val(r.ai).amount))

\* the conditions under which the handler posts a transfer fee
TransferFeeDue(r) ==
  LET ai == Val(r.ai) IN
  /\ ai.direction = Some("outflow")
  /\ Truthy(ai.transfer_type)
  /\ ai.transfer_type # Some("unknown")
  /\ FeeIsCharged(TransferFeeResult(r).fee)

\* mutant: the estimate is posted for every Absa outflow
PlaceholderDue_always(r) ==
  LET ai == Val(r.ai) IN
  /\ revision = "placeholder"
  /\ senderToProvider(r.sender) = "absa"
  /\ ai.direction = Some("outflow")

\* the conditions under which the placeholder revision posts its estimate
PlaceholderDue(r) ==
  LET ai == Val(r.ai) IN
  /\ revision = "placeholder"
  /\ senderToProvider(r.sender) = "absa"
  /\ ai.direction = Some("outflow")
  /\ (~Truthy(ai.transfer_type) \/ ai.transfer_type = Some("unknown"))
  /\ ~r.feeInfo

NotificationDue(r) == FeeIsCharged(getSmsNotificationFee(senderToProvider(r.sender)).fee)

\* the next request of a standalone run once the step after is behind it
NextStep(r, after) ==
  IF after = "primary" /\ TransferFeeDue(r) THEN "postFee"
  ELSE IF after \in {"primary", "fee"} /\ PlaceholderDue(r) THEN "postPlaceholder"
  ELSE IF after \in {"primary", "fee", "placeholder"} /\ NotificationDue(r)
    THEN "postNotification"
  ELSE "return"

Continue(r, after) ==
  IF NextStep(r, after) = "return" THEN Finish(r, YnabResult(TRUE, "", None))
  ELSE Proceed(r, NextStep(r, after))

\* mutant: a rejected primary entry is logged and the run goes on to the fees
PostPrimary_continues ==
  /\ run.pc = "postPrimary"
  /\ LET r == [run EXCEPT !.importId = Some(PrimaryImportId(run))] IN
     \/ /\ Accepted("primary", PrimaryTransaction(run))
        /\ IF revision = "legacy" THEN Finish(r, YnabResult(TRUE, "", None))
           ELSE IF revision = "correlation" /\ supabase THEN Proceed(r, "storeContext")
           ELSE Continue(r, "primary")
     \/ /\ Rejected("primary", PrimaryTransaction(run))
        /\ IF revision = "legacy" THEN Finish(r, YnabResult(FALSE, "YNAB error", Some("error")))
           ELSE Continue(r, "primary")
  /\ UNCHANGED <<envVars, parked, switches, lookupVars, cache, store, feeVars>>

\* the primary entry is posted
PostPrimary ==
  /\ run.pc = "postPrimary"
  /\ LET r == [run EXCEPT !.importId = Some(PrimaryImportId(run))] IN
     \/ /\ Accepted("primary", PrimaryTransaction(run))
        /\ IF revision = "legacy" THEN Finish(r, YnabResult(TRUE, "", None))
           ELSE IF revision = "correlation" /\ supabase THEN Proceed(r, "storeContext")
           ELSE Continue(r, "primary")
     \/ /\ Rejected("primary", PrimaryTransaction(run))
        /\ Finish(r, YnabResult(FALSE, "YNAB error", Some("error")))
  /\ UNCHANGED <<envVars, parked, switches, lookupVars, cache, store, feeVars>>

\* the row storeSmsContext inserts; the table numbers its rows
SmsContextRecord(r) ==
  [id |-> Len(store) + 1, sender |-> r.sender, sms_text |-> r.text,
   received_at |-> r.receivedAtIso, amount |-> Val(r.ai).amount,
   direction |-> Val(r.ai).direction, ynab_account_id |-> r.routing.accountId,
   import_id |-> r.importId, is_primary |-> TRUE, correlated_with |-> None,
   fee_applied |-> FALSE]

\* storeSmsContext; a failure is logged and the run goes on
\* a handler that gives up when the record cannot be stored
StoreContext_fatal ==
  /\ run.pc = "storeContext"
  /\ \/ /\ store' = Append(store, SmsContextRecord(run))
        /\ Continue(run, "primary")
     \/ /\ UNCHANGED store
        /\ Finish(run, YnabResult(FALSE, "YNAB error", Some("error")))
  /\ UNCHANGED <<envVars, parked, switches, lookupVars, cache, ynab, calls, feeVars>>

StoreContext ==
  /\ run.pc = "storeContext"
  /\ \/ store' = Append(store, SmsContextRecord(run))
     \/ UNCHANGED store
  /\ Continue(run, "primary")
  /\ UNCHANGED <<envVars, parked, switches, lookupVars, cache, ynab, calls, feeVars>>

TransferFeeTransaction(r) ==
  FeeTransaction(Val(r.routing.accountId), r.receivedAtIso, TransferFeeResult(r),
                 <<"Transaction Fee", Val(r.importId)>>,
                 ReplaceTag(Val(r.importId), "fee:"))

\* mutant: a rejected transfer fee ends the run as a ledger error
PostFee_fatal ==
  /\ run.pc = "postFee"
  /\ \/ /\ Accepted("fee", TransferFeeTransaction(run))
        /\ Continue([run EXCEPT !.feeInfo = TRUE], "fee")
     \/ /\ Rejected("fee", TransferFeeTransaction(run))
        /\ Finish(run, YnabResult(FALSE, "YNAB error", Some("error")))
  /\ UNCHANGED <<envVars, parked, switches, lookupVars, cache, store, feeVars>>

\* the transfer fee is posted; a failure is logged and the run goes on
PostFee ==
  /\ run.pc = "postFee"
  /\ \/ /\ Accepted("fee", TransferFeeTransaction(run))
        /\ Continue([run EXCEPT !.feeInfo = TRUE], "fee")
     \/ /\ Rejected("fee", TransferFeeTransaction(run))
        /\ Continue(run, "fee")
  /\ UNCHANGED <<envVars, parked, switches, lookupVars, cache, store, feeVars>>

\* the estimate of the placeholder revision: K10, payee "Absa Bank"
PlaceholderFeeTransaction(r) ==
  Transaction(Val(r.routing.accountId), DateOnly(r.receivedAtIso),
              -toMilliunits(K(10, 0)),
              "Transfer Fee (estimated K10) - verify & adjust amount",
              ReplaceTag(Val(r.importId), "plt:"),
              getPayeeIdByName(cache, "Absa Bank"), None,
              CategoryIdOrNone(cache, FEE_CATEGORY_NAME))

PostPlaceholder ==
  /\ run.pc = "postPlaceholder"
  /\ \/ /\ Accepted("plt", PlaceholderFeeTransaction(run))
        /\ Continue([run EXCEPT !.feeInfo = TRUE], "placeholder")
     \/ /\ Rejected("plt", PlaceholderFeeTransaction(run))
        /\ Continue(run, "placeholder")
  /\ UNCHANGED <<envVars, parked, switches, lookupVars, cache, store, feeVars>>

\* mutant: the notification fee is keyed with the tag of the transfer fee
NotificationFeeTransaction_feeTag(r) ==
  FeeTransaction(Val(r.routing.accountId), r.receivedAtIso,
                 getSmsNotificationFee(senderToProvider(r.sender)),
                 <<"SMS Notification Fee", Val(r.importId)>>,
                 ReplaceTag(Val(r.importId), "fee:"))

NotificationFeeTransaction(r) ==
  FeeTransaction(Val(r.routing.accountId), r.receivedAtIso,
                 getSmsNotificationFee(senderToProvider(r.sender)),
                 <<"SMS Notification Fee", Val(r.importId)>>,
                 ReplaceTag(Val(r.importId), "ntf:"))

PostNotification ==
  /\ run.pc = "postNotification"
  /\ \/ /\ Accepted("ntf", NotificationFeeTransaction(run))
        /\ Continue([run EXCEPT !.smsFeeInfo = TRUE], "notification")
     \/ /\ Rejected("ntf", NotificationFeeTransaction(run))
        /\ Continue(run, "notification")
  /\ UNCHANGED <<envVars, parked, switches, lookupVars, cache, store, feeVars>>

\* time passes between two invocations (before the first and after the last
\* the clock's advance changes nothing the handler can see)
Tick ==
  /\ run.pc = "idle"
  /\ ticks < MaxTicks
  /\ 0 < Len(history) /\ Len(history) < MaxRuns
  /\ now' = now + TickMinutes
  /\ ticks' = ticks + 1
  /\ UNCHANGED <<revision, supabase, cache, ynab, store, run, calls, history, feeVars,
               lookupVars, parked, switches>>

Next ==
  \/ \E m \in Messages, raw \in Timestamps : Receive(m, raw)
  \/ EnsureCacheHit
  \/ EnsureCacheFetch
  \/ Classify
  \/ FindMatch
  \/ PostCorrelatedFee
  \/ MarkFeeApplied
  \/ Route
  \/ PostPrimary
  \/ StoreContext
  \/ PostFee
  \/ PostPlaceholder
  \/ PostNotification
  \/ Tick

Spec == Init /\ [][Next]_vars

NextLegacy ==
  \/ \E m \in Messages, raw \in Timestamps : Receive(m, raw)
  \/ Classify
  \/ EnsureCacheHit
  \/ EnsureCacheFetch
  \/ Route
  \/ PostPrimary
  \/ Tick

SpecLegacy == InitLegacy /\ [][NextLegacy]_vars

(***************************************************************************)
(* calculateFee on its own: every provider and transfer type, and the      *)
(* amounts at, just below and just above every tier bound.                 *)
(***************************************************************************)
AllTiers ==
  UNION { UNION { {FEE_CONFIG[p][t].tiers[i] : i \in 1..Len(FEE_CONFIG[p][t].tiers)} :
                  t \in DOMAIN FEE_CONFIG[p] } : p \in DOMAIN FEE_CONFIG }

FeeAmounts ==
  {-K(1, 0), -1, 0, 1}
    \cup UNION { {tier.min, tier.min + 1, tier.max, tier.max + 1} : tier \in AllTiers }

InitFee ==
  /\ revision = "correlation"
  /\ supabase = FALSE
  /\ InitCommon
  /\ feeArgs \in {Some([provider |-> p, transferType |-> t, amount |-> a]) :
                    p \in Providers, t \in TransferTypes, a \in FeeAmounts}
  /\ feeReturned = None

CalculateFee ==
  /\ IsSome(feeArgs)
  /\ feeReturned = None
  /\ feeReturned' = Some(calculateFee(Val(feeArgs).provider, Val(feeArgs).transferType,
                                      Val(feeArgs).amount))
  /\ UNCHANGED <<envVars, parked, switches, lookupVars, cache, ynab, store, run, calls, history, feeArgs>>

NextFee == CalculateFee

SpecFee == InitFee /\ [][NextFee]_vars

(***************************************************************************)
(* resolveAccountId on its own: a run that has reached its routing step,   *)
(* for every sender, body and directory of the sets below.                 *)
(***************************************************************************)
RouteSenders ==
  {"AirtelMoney", "Absa", "ABSA_ZM", "MoMo", "115", "StanChart", "StanChartZM", "MTN",
   "unknown", ""}

RouteTexts ==
  {"Sent ZMW 100 to John", "Debit on acct Ending 4983", "Paid from acct ending  0878",
   "Spending 123 ending 12"}

RouteDirectories ==
  { Accounts,
    << Entry("acct-airtel", "Airtel Money", FALSE),
       Entry("acct-absa", "Absa Current", FALSE),
       Entry("acct-savings", "Absa Savings", FALSE),
       Entry("acct-momo", "MTN MoMo", FALSE),
       Entry("acct-unknown", "Unknown Imports", FALSE) >>,
    << Entry("acct-savings", "Absa Savings", FALSE),
       Entry("acct-stanchart", "Stanchart Current", FALSE) >>,
    << Entry("acct-unknown", "Unknown Imports", FALSE) >>,
    << >> }

InitRoute ==
  /\ revision = "correlation"
  /\ supabase = FALSE
  /\ now = Start
  /\ ticks = 0
  /\ \E accounts \in RouteDirectories :
       /\ ynab = [accounts |-> accounts, categories |-> Categories, payees |-> Payees,
                  transactions |-> <<>>]
       /\ cache = Some([accounts |-> accounts, categories |-> Categories,
                        payees |-> Payees, fetchedAt |-> Start])
  /\ store = <<>>
  /\ \E sender \in RouteSenders, text \in RouteTexts :
       run = [Idle EXCEPT !.pc = "route", !.id = 1, !.sender = sender, !.text = text,
                          !.receivedAtRaw = Parsable(Start),
                          !.receivedAtIso = Iso(Start), !.ai = Some(AiSameNetwork)]
  /\ calls = <<>>
  /\ history = <<>>
  /\ feeArgs = None
  /\ feeReturned = None
  /\ lookupArgs = None
  /\ lookupReturned = None
  /\ parked = Idle
  /\ switches = 0

NextRoute == Route

SpecRoute == InitRoute /\ [][NextRoute]_vars

\* minutes of the clock ensureCache is looked at over
CacheSpan == 7

\* what an earlier refresh can have left in the cache: the directory of the
\* ledger as it is, or as it was before the accounts were added
Snapshots(clock) ==
  { Some([accounts |-> accounts, categories |-> Categories, payees |-> Payees,
          fetchedAt |-> at]) :
      accounts \in {Accounts, << >>}, at \in Start..clock }

\* ensureCache on its own: an invocation about to call it, the cache empty
\* or holding a snapshot of any age up to CacheSpan
InitCache ==
  /\ revision = "correlation"
  /\ supabase = FALSE
  /\ now \in Start..(Start + CacheSpan)
  /\ ticks = 0
  /\ cache \in {None} \cup Snapshots(now)
  /\ ynab = [accounts |-> Accounts, categories |-> Categories, payees |-> Payees,
             transactions |-> <<>>]
  /\ store = <<>>
  /\ run = [Idle EXCEPT !.pc = "ensureCache", !.id = 1, !.sender = "Absa",
                        !.text = "Debit on acct Ending 4983",
                        !.receivedAtRaw = Parsable(Start),
                        !.receivedAtIso = Iso(Start)]
  /\ calls = <<>>
  /\ history = <<>>
  /\ feeArgs = None
  /\ feeReturned = None
  /\ lookupArgs = None
  /\ lookupReturned = None
  /\ parked = Idle
  /\ switches = 0

SpecCache == InitCache /\ [][EnsureCacheHit \/ EnsureCacheFetch]_vars

\* names looked up, and lists of entries they are looked up in: a deleted and
\* two live entries of one name in different case, a deleted entry alone, a
\* longer name beside the name, no entry
LookupNames == {"Absa", "absa", "ABSA", "Absa Bank", "Fees"}

LookupLists ==
  { << Entry("e1", "Absa", TRUE), Entry("e2", "ABSA", FALSE), Entry("e3", "absa", FALSE) >>,
    << Entry("e1", "Absa", TRUE) >>,
    << Entry("e1", "Absa Bank", FALSE), Entry("e2", "fees", TRUE),
       Entry("e3", "absa", FALSE) >>,
    << >> }

\* a cache whose list of the kind is entries
CacheWith(kind, entries) ==
  Some([accounts |-> IF kind = "account" THEN entries ELSE << >>,
        categories |-> IF kind = "category" THEN entries ELSE << >>,
        payees |-> IF kind = "payee" THEN entries ELSE << >>,
        fetchedAt |-> Start])

\* a name lookup on its own: the cache empty or holding one of the lists
InitLookup ==
  /\ revision = "correlation"
  /\ supabase = FALSE
  /\ now = Start
  /\ ticks = 0
  /\ ynab = [accounts |-> Accounts, categories |-> Categories, payees |-> Payees,
             transactions |-> <<>>]
  /\ store = <<>>
  /\ run = Idle
  /\ calls = <<>>
  /\ history = <<>>
  /\ feeArgs = None
  /\ feeReturned = None
  /\ parked = Idle
  /\ switches = 0
  /\ \E kind \in {"account", "category", "payee"}, name \in LookupNames :
       /\ lookupArgs = Some([kind |-> kind, name |-> name])
       /\ cache \in {None} \cup {CacheWith(kind, entries) : entries \in LookupLists}
  /\ lookupReturned = None

\* findAccountByName, findCategoryByName or findPayeeByName is called
FindByNameCall ==
  /\ IsSome(lookupArgs)
  /\ lookupReturned = None
  /\ LET kind == Val(lookupArgs).kind
         name == Val(lookupArgs).name
     IN  lookupReturned' =
           Some(CASE kind = "account" -> findAccountByName(cache, name)
                  [] kind = "category" -> findCategoryByName(cache, name)
                  [] kind = "payee" -> findPayeeByName(cache, name))
  /\ UNCHANGED <<envVars, parked, switches, cache, ynab, store, run, calls, history, feeVars,
                 lookupArgs>>

SpecLookup == InitLookup /\ [][FindByNameCall]_vars

(***************************************************************************)
(* Two invocations at once.  The isolate runs one handler at a time and     *)
(* switches at an await: while run waits for a request, a second request    *)
(* can be received and the two handlers take turns, each step being one     *)
(* request answered and the handler's code up to its next await.            *)
(***************************************************************************)
\* what the two overlapping requests can carry
OverlapMessages ==
  { Message("Absa", "Debit on acct Ending 4983", ai) : ai \in {AiToMobile, AiFollowUpPhone} }
  \cup { Message("MTN", "Sent ZMW 100 to John", AiAirtime) }

\* a fresh instance, a minute after a run of the instance before has posted
\* a primary entry and stored its record
InitOverlap ==
  /\ revision = "correlation"
  /\ supabase = TRUE
  /\ now = Start
  /\ ticks = 0
  /\ cache = None
  /\ LET EarlierPrimary ==
           [id |-> 0, sender |-> "Absa", text |-> "Debit on acct Ending 4983",
            receivedAtIso |-> Iso(Start - 1), ai |-> Some(AiNoType),
            routing |-> RoutingResult(Some("acct-absa"), Some("Absa Current"), "ending_hint"),
            importId |-> Some(makeImportId("Absa", Iso(Start - 1), toMilliunits(K(100, 0)),
                                           "Debit on acct Ending 4983")),
            payeeId |-> None, categoryId |-> None]
     IN
     /\ store = << [id |-> 1, sender |-> EarlierPrimary.sender,
                    sms_text |-> EarlierPrimary.text,
                    received_at |-> EarlierPrimary.receivedAtIso,
                    amount |-> AiNoType.amount, direction |-> AiNoType.direction,
                    ynab_account_id |-> EarlierPrimary.routing.accountId,
                    import_id |-> EarlierPrimary.importId,
                    is_primary |-> TRUE, correlated_with |-> None,
                    fee_applied |-> FALSE] >>
     /\ ynab = [accounts |-> Accounts, categories |-> Categories, payees |-> Payees,
                transactions |-> << PrimaryTransaction(EarlierPrimary) >>]
  /\ run = Idle
  /\ calls = <<>>
  /\ history = <<>>
  /\ feeArgs = None
  /\ feeReturned = None
  /\ lookupArgs = None
  /\ lookupReturned = None
  /\ parked = Idle
  /\ switches = 0

\* a second request is received while the first handler waits at an await
Arrive(m, raw) ==
  /\ run.pc # "idle"
  /\ parked.pc = "idle"
  /\ history = <<>>
  /\ parked' = run
  /\ run' = [Idle EXCEPT !.pc = "ensureCache",
                         !.id = run.id + 1,
                         !.sender = m.sender, !.text = m.text,
                         !.receivedAtRaw = raw,
                         !.receivedAtIso = normalizeDate(raw, now)]
  /\ UNCHANGED <<envVars, switches, lookupVars, cache, ynab, store, calls, history, feeVars>>

\* the handler in run waits (or has returned) and the other one goes on
Resume ==
  /\ parked.pc # "idle"
  /\ run.pc # "idle" => switches < MaxSwitches
  /\ run' = parked
  /\ parked' = run
  /\ switches' = IF run.pc = "idle" THEN switches ELSE switches + 1
  /\ UNCHANGED <<envVars, lookupVars, cache, ynab, store, calls, history, feeVars>>

\* ensureCache finds no valid snapshot and issues the three list requests
EnsureCacheBegin ==
  /\ run.pc = "ensureCache"
  /\ ~isCacheValid(cache, now)
  /\ Proceed(run, "fetching")
  /\ UNCHANGED <<envVars, parked, switches, lookupVars, cache, ynab, store, calls, feeVars>>

\* the order in which the three list requests are sent and answered
ListOrder == <<"listAccounts", "listCategories", "listPayees">>

\* an ensureCache that stores each list as soon as it is answered
ListAnswered_piecemeal(op) ==
  /\ run.pc = "fetching"
  /\ op = ListOrder[Cardinality(DOMAIN run.fetched) + 1]
  /\ LET Listed(o) == CASE o = "listAccounts" -> ynab.accounts
                           [] o = "listCategories" -> ynab.categories
                           [] o = "listPayees" -> ynab.payees
         fetched == [o \in DOMAIN run.fetched \cup {op} |->
                       IF o = op THEN Listed(op) ELSE run.fetched[o]]
         old == IF IsSome(cache) THEN Val(cache)
                ELSE [accounts |-> <<>>, categories |-> <<>>, payees |-> <<>>,
                      fetchedAt |-> now]
     IN  /\ calls' = Append(calls, Call(run.id, op, Some(Listed(op)), TRUE))
         /\ cache' = Some([accounts |-> IF op = "listAccounts" THEN Listed(op)
                                        ELSE old.accounts,
                           categories |-> IF op = "listCategories" THEN Listed(op)
                                          ELSE old.categories,
                           payees |-> IF op = "listPayees" THEN Listed(op) ELSE old.payees,
                           fetchedAt |-> now])
         /\ IF DOMAIN fetched = ListOps
              THEN Proceed([run EXCEPT !.fetched = fetched], AfterCache)
              ELSE Proceed([run EXCEPT !.fetched = fetched], "fetching")
  /\ UNCHANGED <<envVars, parked, switches, lookupVars, ynab, store, feeVars>>

\* the next of the three list requests is answered; with the last answer
\* Promise.all resolves and the snapshot is assigned in one statement
ListAnswered(op) ==
  /\ run.pc = "fetching"
  /\ op = ListOrder[Cardinality(DOMAIN run.fetched) + 1]
  /\ LET Listed(o) == CASE o = "listAccounts" -> ynab.accounts
                           [] o = "listCategories" -> ynab.categories
                           [] o = "listPayees" -> ynab.payees
         fetched == [o \in DOMAIN run.fetched \cup {op} |->
                       IF o = op THEN Listed(op) ELSE run.fetched[o]]
     IN  /\ calls' = Append(calls, Call(run.id, op, Some(Listed(op)), TRUE))
         /\ IF DOMAIN fetched = ListOps
           THEN /\ cache' = Some([accounts |-> fetched["listAccounts"],
                                  categories |-> fetched["listCategories"],
                                  payees |-> fetched["listPayees"],
                                  fetchedAt |-> now])
                /\ Proceed([run EXCEPT !.fetched = fetched], AfterCache)
           ELSE /\ UNCHANGED cache
                /\ Proceed([run EXCEPT !.fetched = fetched], "fetching")
  /\ UNCHANGED <<envVars, parked, switches, lookupVars, ynab, store, feeVars>>

\* one of the list requests fails: Promise.all rejects and the run ends
ListFailed(op) ==
  /\ run.pc = "fetching"
  /\ op = ListOrder[Cardinality(DOMAIN run.fetched) + 1]
  /\ calls' = Append(calls, Call(run.id, op, None, FALSE))
  /\ Finish(run, YnabResult(FALSE, CacheFailureReason, Some("error")))
  /\ UNCHANGED <<envVars, parked, switches, lookupVars, cache, ynab, store, feeVars>>

SpecOverlap ==
  InitOverlap /\
  [][
    \/ \E m \in OverlapMessages :
         parked.pc = "idle" /\ Receive(m, Parsable(Start - 2))
    \/ \E m \in OverlapMessages : Arrive(m, Parsable(Start - 2))
    \/ Resume
    \/ EnsureCacheHit
    \/ EnsureCacheBegin
    \/ \E op \in ListOps : ListAnswered(op)
    \/ \E op \in ListOps : ListFailed(op)
    \/ Classify
    \/ FindMatch
    \/ PostCorrelatedFee
    \/ MarkFeeApplied
    \/ Route
    \/ PostPrimary
    \/ StoreContext
    \/ PostFee
    \/ PostNotification
  ]_vars

(***************************************************************************)
(* Correlation on its own: a follow-up that has been classified and is      *)
(* about to look for its primary record, around midnight, over the stores   *)
(* that earlier runs can have left; and findMatchingTransaction called     *)
(* with and without an amount.                                             *)
(***************************************************************************)
\* primary records in one store
MaxRecords == 2

InitCorrelate ==
  LET Earlier(sender, amount, at) ==
        [id |-> 0, sender |-> sender,
         text |-> IF sender = "AirtelMoney" THEN "Sent ZMW 100 to John"
                  ELSE "Debit on acct Ending 4983",
         receivedAtIso |-> Iso(at),
         ai |-> Some([AiNoType EXCEPT !.amount = Some(amount)]),
         routing |-> IF sender = "AirtelMoney"
                       THEN RoutingResult(Some("acct-airtel"), Some("Airtel Money"),
                                          "sender_map")
                       ELSE RoutingResult(Some("acct-absa"), Some("Absa Current"),
                                          "ending_hint"),
         importId |-> Some(makeImportId(sender, Iso(at), toMilliunits(amount),
                             IF sender = "AirtelMoney" THEN "Sent ZMW 100 to John"
                             ELSE "Debit on acct Ending 4983")),
         payeeId |-> None, categoryId |-> None]
      Earliers == { Earlier(sender, amount, at) :
                      sender \in {"Absa", "ABSA", "AirtelMoney"},
                      amount \in {K(100, 0), K(20000, 0)},
                      at \in {MinPerDay - 6, MinPerDay - 1} }
      Row(k, r, applied) ==
        [id |-> k, sender |-> r.sender, sms_text |-> r.text,
         received_at |-> r.receivedAtIso, amount |-> Val(r.ai).amount,
         direction |-> Val(r.ai).direction, ynab_account_id |-> r.routing.accountId,
         import_id |-> r.importId, is_primary |-> TRUE, correlated_with |-> None,
         fee_applied |-> applied]
  IN
  /\ revision = "correlation"
  /\ supabase = TRUE
  /\ now \in {MinPerDay - 2, MinPerDay + 2}
  /\ ticks = 0
  /\ cache = Some([accounts |-> Accounts, categories |-> Categories, payees |-> Payees,
                   fetchedAt |-> now])
  /\ \E n \in 0..MaxRecords :
       \E rs \in [1..n -> Earliers], applied \in [1..n -> BOOLEAN] :
         /\ store = [k \in 1..n |-> Row(k, rs[k], applied[k])]
         /\ ynab = [accounts |-> Accounts, categories |-> Categories, payees |-> Payees,
                    transactions |->
                      IF n = 0 THEN <<>>
                      ELSE IF n = 1 THEN << PrimaryTransaction(rs[1]) >>
                      ELSE Stored(<< PrimaryTransaction(rs[1]) >>,
                                  PrimaryTransaction(rs[2]))]
  /\ \E sender \in {"Absa", "AirtelMoney"},
        ai \in {AiFollowUpPhone, AiFollowUpTyped,
                [AiFollowUpTyped EXCEPT !.transfer_type = Some("same_network")],
                [AiFollowUpTyped EXCEPT !.transfer_type = None]},
        amount \in {None, Some(K(100, 0))} :
       /\ run = [Idle EXCEPT !.pc = "findMatch", !.id = 1, !.sender = sender,
                             !.text = "Debit on acct Ending 4983",
                             !.receivedAtRaw = Parsable(now - 1),
                             !.receivedAtIso = Iso(now - 1), !.ai = Some(ai)]
       /\ lookupArgs = Some([sender |-> sender, amount |-> amount])
  /\ calls = <<>>
  /\ history = <<>>
  /\ feeArgs = None
  /\ feeReturned = None
  /\ lookupReturned = None
  /\ parked = Idle
  /\ switches = 0

\* findMatchingTransaction(sender, amount) is called and returns
FindMatchingCall ==
  /\ IsSome(lookupArgs)
  /\ lookupReturned = None
  /\ LET rows == findMatchingTransaction(Val(lookupArgs).sender, Val(lookupArgs).amount, now)
     IN  IF rows = {} THEN lookupReturned' = Some(None)
         ELSE \E i \in rows : lookupReturned' = Some(Some(store[i]))
  /\ UNCHANGED <<envVars, parked, switches, cache, ynab, store, run, calls, history, feeVars,
                 lookupArgs>>

SpecCorrelate ==
  InitCorrelate /\ [][FindMatchingCall \/ FindMatch \/ PostCorrelatedFee \/ MarkFeeApplied]_vars

(***************************************************************************)
(* The primary post on its own: a run that has passed validation and       *)
(* routing, over the amounts and directions the classifier can return.     *)
(***************************************************************************)
InitAmount ==
  /\ revision = "correlation"
  /\ supabase = FALSE
  /\ now = Start
  /\ ticks = 0
  /\ ynab = [accounts |-> Accounts, categories |-> Categories, payees |-> Payees,
             transactions |-> <<>>]
  /\ cache = Some([accounts |-> Accounts, categories |-> Categories, payees |-> Payees,
                   fetchedAt |-> Start])
  /\ store = <<>>
  /\ \E amount \in {-K(100, 0), -1, 0, 1, K(0, 1), K(0, 50), K(1, 0), K(100, 0),
                     K(5000, 0), K(20000, 0)},
        direction \in {"inflow", "outflow"},
        sender \in {"AirtelMoney", "Absa"} :
       run = [Idle EXCEPT
                !.pc = "postPrimary", !.id = 1, !.sender = sender,
                !.text = IF sender = "Absa" THEN "Debit on acct Ending 4983"
                         ELSE "Sent ZMW 100 to John",
                !.receivedAtRaw = Parsable(Start), !.receivedAtIso = Iso(Start),
                !.ai = Some([AiSameNetwork EXCEPT !.amount = Some(amount),
                                                  !.direction = Some(direction)]),
                !.routing = IF sender = "Absa"
                              THEN RoutingResult(Some("acct-absa"), Some("Absa Current"),
                                                 "ending_hint")
                              ELSE RoutingResult(Some("acct-airtel"), Some("Airtel Money"),
                                                 "sender_mapping")]
  /\ calls = <<>>
  /\ history = <<>>
  /\ feeArgs = None
  /\ feeReturned = None
  /\ lookupArgs = None
  /\ lookupReturned = None
  /\ parked = Idle
  /\ switches = 0

SpecAmount == InitAmount /\ [][PostPrimary]_vars

(***************************************************************************)
(* Properties.                                                             *)
(***************************************************************************)
\* the schedule a finished calculateFee call was about
FeeSchedule == ScheduleOf(Val(feeArgs).provider, Val(feeArgs).transferType)

FeeTiers == IF IsSome(FeeSchedule) THEN Val(FeeSchedule).tiers ELSE <<>>

\* C7: calculateFee picks the tier with min < amount <= max.  For a schedule
\* with tiers: an amount equal to a tier's upper bound gets that tier's fee,
\* the amount just above it gets the next tier's fee, and an amount of 0 or
\* less matches no tier: fee = null with configured = true.
C7_TierBoundaries ==
  (IsSome(feeReturned) /\ Len(FeeTiers) > 0) =>
    LET amount == Val(feeArgs).amount
        result == Val(feeReturned)
    IN  /\ \A i \in 1..Len(FeeTiers) :
             /\ (FeeTiers[i].min < amount /\ amount <= FeeTiers[i].max)
                  => result.fee = Some(FeeTiers[i].fee)
             /\ amount = FeeTiers[i].max => result.fee = Some(FeeTiers[i].fee)
             /\ (i < Len(FeeTiers) /\ amount = FeeTiers[i].max + 1)
                  => result.fee = Some(FeeTiers[i + 1].fee)
        /\ amount <= 0 => (result.fee = None /\ result.configured)

\* C7 witness: K150, the upper bound of Airtel's first same-network tier, was
\* charged that tier's fee of K0.58 and not the K1.10 of the tier above
C7_Witness ==
  /\ feeArgs = Some([provider |-> "airtel", transferType |-> "same_network",
                     amount |-> K(150, 0)])
  /\ IsSome(feeReturned)
  /\ Val(feeReturned).fee = Some(K(0, 58))

\* C8: for a schedule with an empty tier list calculateFee returns fee = 0 and
\* configured = true whatever the amount; for a pair without a schedule it
\* returns fee = null and configured = false whatever the amount.
C8_FreeVersusUnconfigured ==
  IsSome(feeReturned) =>
    /\ (IsSome(FeeSchedule) /\ Len(FeeTiers) = 0)
         => (Val(feeReturned).fee = Some(0) /\ Val(feeReturned).configured)
    /\ ~IsSome(FeeSchedule)
         => (Val(feeReturned).fee = None /\ ~Val(feeReturned).configured)

\* C8 witness: both cases have been computed for amounts on either side of
\* zero: Airtel airtime (free) and an Absa same-network transfer (no schedule)
C8_Witness ==
  /\ IsSome(feeReturned)
  /\ Val(feeArgs).amount = -1
  /\ \/ /\ Val(feeArgs).provider = "airtel" /\ Val(feeArgs).transferType = "airtime"
        /\ Val(feeReturned).fee = Some(0)
     \/ /\ Val(feeArgs).provider = "absa" /\ Val(feeArgs).transferType = "same_network"
        /\ ~Val(feeReturned).configured

\* the kinds of create-transaction requests, named by their key tags
CreateKinds == {"primary", "fee", "xfr", "plt", "ntf"}

\* the create-transaction requests made so far, and the entry of each
Creates == {i \in 1..Len(calls) : calls[i].op \in CreateKinds}

Submitted(i) == Val(calls[i].body)

\* what is known of invocation id: the one in progress, or its record
Invocation(id) == IF run.id = id THEN run ELSE history[id]

\* the routing outcome under scrutiny in SpecRoute, once Route has acted
RoutingDone == run.pc = "postPrimary" \/ Len(history) > 0

Routing == IF run.pc = "postPrimary" THEN run ELSE history[1]

\* the account the ending hint of the body leads to, if any
EndingAccountId(text) ==
  LET ending == extractAccountEnding(text)
      name == IF IsSome(ending) THEN getAccountNameByEnding(Val(ending)) ELSE None
  IN  IF IsSome(name) THEN getAccountIdByName(cache, Val(name)) ELSE None

\* the account the sender mapping leads to, if any
SenderAccountId(sender) ==
  LET name == IF sender # "" THEN getAccountNameBySender(sender) ELSE None
  IN  IF IsSome(name) THEN getAccountIdByName(cache, Val(name)) ELSE None

\* C5: routing priority.  An ending hint mapped to an account found in the
\* cache wins (provenance ending_hint) even when the sender is mapped too;
\* otherwise a sender mapped to an account found in the cache is used
\* (provenance sender_mapping); the fallback is used exactly when both fail.
C5_RoutingPriority ==
  RoutingDone =>
    LET byEnding == EndingAccountId(Routing.text)
        bySender == SenderAccountId(Routing.sender)
        routing == Routing.routing
    IN  /\ IsSome(byEnding)
             => (routing.source = "ending_hint" /\ routing.accountId = byEnding)
        /\ (~IsSome(byEnding) /\ IsSome(bySender))
             => (routing.source = "sender_mapping" /\ routing.accountId = bySender)
        /\ (~IsSome(byEnding) /\ ~IsSome(bySender))
             <=> routing.source \in {"fallback_existing", "fallback_created", "failed"}

\* C5 witness: a body ending 4983 from AirtelMoney, with both the Absa and
\* the Airtel account in the cache, was routed to the Absa account by its hint
C5_Witness ==
  /\ run.pc = "postPrimary"
  /\ run.sender = "AirtelMoney"
  /\ run.text = "Debit on acct Ending 4983"
  /\ IsSome(SenderAccountId(run.sender))
  /\ run.routing.source = "ending_hint"
  /\ run.routing.accountId = Some("acct-absa")

\* create-transaction requests of one kind made by invocation id
CreatesOf(id, kind) == {i \in Creates : calls[i].run = id /\ calls[i].op = kind}

\* two invocations received the identical message (a receipt timestamp that
\* parses included) and the classifier answered both alike
SameDelivery(a, b) ==
  /\ Invocation(a).sender = Invocation(b).sender
  /\ Invocation(a).text = Invocation(b).text
  /\ Invocation(a).receivedAtRaw = Invocation(b).receivedAtRaw
  /\ IsSome(Invocation(a).receivedAtRaw)
  /\ Val(Invocation(a).receivedAtRaw).valid
  /\ Invocation(a).ai = Invocation(b).ai

\* the entries of standalone messages: the primary and the fees derived from it
StandaloneKinds == {"primary", "fee", "plt", "ntf"}

\* C1: a message delivered twice in sequence (same sender, body, parsable
\* receipt timestamp and classification) is submitted with the same key for
\* the primary entry and for each fee entry derived from it (transfer fee,
\* placeholder fee, notification fee), and the ledger, which skips a key
\* it already holds, stores one entry per key: the entry of every submission
\* it accepted is there, once.
C1_ReplayIsIdempotent ==
  /\ \A i \in Creates, j \in Creates :
       (/\ calls[i].run # calls[j].run
        /\ calls[i].op = calls[j].op
        /\ calls[i].op \in StandaloneKinds
        /\ SameDelivery(calls[i].run, calls[j].run))
         => Submitted(i).import_id = Submitted(j).import_id
  /\ \A a \in 1..Len(ynab.transactions), b \in 1..Len(ynab.transactions) :
       a # b => ynab.transactions[a].import_id # ynab.transactions[b].import_id
  /\ \A i \in Creates :
       calls[i].ok =>
         \E a \in 1..Len(ynab.transactions) :
           ynab.transactions[a].import_id = Submitted(i).import_id

\* C1 witness: the same Airtel transfer was delivered twice, primary and fee
\* were accepted both times, and the ledger holds two entries: one primary
\* and one fee
C1_Witness ==
  /\ Len(history) = 2
  /\ SameDelivery(1, 2)
  /\ \A id \in {1, 2}, kind \in {"primary", "fee"} :
       \E i \in CreatesOf(id, kind) : calls[i].ok
  /\ Len(ynab.transactions) = 2

\* two primary submissions for messages alike in sender, body and amount,
\* received on the same calendar day at different times of day
SameDayTwins(i, j) ==
  /\ calls[i].op = "primary" /\ calls[j].op = "primary"
  /\ calls[i].run # calls[j].run
  /\ Invocation(calls[i].run).sender = Invocation(calls[j].run).sender
  /\ Invocation(calls[i].run).text = Invocation(calls[j].run).text
  /\ Val(Invocation(calls[i].run).ai).amount = Val(Invocation(calls[j].run).ai).amount
  /\ Invocation(calls[i].run).receivedAtIso[1] = Invocation(calls[j].run).receivedAtIso[1]
  /\ Invocation(calls[i].run).receivedAtIso[2] # Invocation(calls[j].run).receivedAtIso[2]

\* C2: two standalone messages alike in sender, body and amount, received on
\* the same calendar day at different times of day, are submitted with
\* different primary keys.
C2_DistinctKeysWithinADay ==
  \A i \in Creates, j \in Creates :
    SameDayTwins(i, j) => Submitted(i).import_id # Submitted(j).import_id

\* the classifier's payee names a live payee of the cache
PayeeMatches(ai) ==
  /\ Truthy(ai.payee)
  /\ IsSome(cache)
  /\ \E k \in 1..Len(Val(cache).payees) :
       /\ ~Val(cache).payees[k].deleted
       /\ SameNameIgnoringCase(Val(cache).payees[k].name, Val(ai.payee))

C4_NeverApproved == \A i \in Creates : Submitted(i).approved = FALSE

\* C4 witness: a primary entry, a notification fee and the correlated fee of
\* a follow-up have been submitted, none of them approved
C4_Witness ==
  /\ \A kind \in {"primary", "ntf", "xfr"} : \E i \in Creates : calls[i].op = kind
  /\ \A i \in Creates : ~Submitted(i).approved

\* invocation id ran as a standalone message and the classifier's answer
\* passed the checks on amount and direction
Standalone(id) ==
  LET r == Invocation(id) IN
  /\ IsSome(r.ai)
  /\ Val(r.ai).is_transaction
  /\ ~(revision = "correlation" /\ Val(r.ai).is_follow_up)
  /\ IsSome(Val(r.ai).amount)
  /\ Truthy(Val(r.ai).direction)

\* the primary entry of invocation id was accepted by the ledger
PrimaryPosted(id) == \E i \in CreatesOf(id, "primary") : calls[i].ok

\* what the claim lets a standalone message be charged: it is an outflow, its
\* transfer type is given and is not unknown, and calculateFee has a fee above 0
FeeExpected(id) ==
  LET r == Invocation(id)
      ai == Val(r.ai)
  IN  /\ Standalone(id)
      /\ ai.direction = Some("outflow")
      /\ IsSome(ai.transfer_type)
      /\ Val(ai.transfer_type) \notin {"", "unknown"}
      /\ LET fee == calculateFee(senderToProvider(r.sender), Val(ai.transfer_type),
                                 Val(ai.amount)).fee
         IN  IsSome(fee) /\ Val(fee) > 0

\* C6: in a standalone run a transfer-fee entry is submitted if and only if
\* the primary entry was posted, the direction is outflow, the transfer type
\* is present and not unknown, and calculateFee returns a fee above zero.  No
\* fee entry is ever submitted without these, and a run that has returned
\* submitted one whenever they held.
C6_TransferFeeIff ==
  /\ \A i \in Creates :
       calls[i].op = "fee" => (PrimaryPosted(calls[i].run) /\ FeeExpected(calls[i].run))
  /\ \A id \in 1..Len(history) :
       (PrimaryPosted(id) /\ FeeExpected(id)) => CreatesOf(id, "fee") # {}

\* C6 witness: two runs have returned with their primary entry posted: an
\* Airtel transfer of K100 with its fee entry, and an Airtel transfer of
\* K20000, outside every tier, without one
C6_Witness ==
  /\ Len(history) = 2
  /\ PrimaryPosted(1) /\ PrimaryPosted(2)
  /\ history[1].ai = Some(AiSameNetwork) /\ history[1].sender = "AirtelMoney"
  /\ CreatesOf(1, "fee") # {}
  /\ history[2].ai = Some(AiOutsideTiers)
  /\ CreatesOf(2, "fee") = {}

\* the requests of any kind that invocation id made to the ledger
CallsOf(id) == {i \in 1..Len(calls) : calls[i].run = id}

\* invocation id returned on a message the classifier called no transaction
NotTransactionRun(id) ==
  /\ id \in 1..Len(history)
  /\ IsSome(history[id].ai)
  /\ ~Val(history[id].ai).is_transaction

\* C9 (as stated): a run whose message the classifier reports as no
\* transaction ends skipped with the classifier's reason and makes no request
\* to the ledger at all.
C9_NoLedgerCalls ==
  \A id \in 1..Len(history) :
    NotTransactionRun(id) =>
      /\ ~history[id].result.sent
      /\ history[id].result.reason = "Not a transaction"
      /\ history[id].result.detail = Some(Val(history[id].ai).reason)
      /\ CallsOf(id) = {}

\* C9 (amended): a run whose message the classifier reports as no transaction
\* ends skipped ("Not a transaction") with the classifier's reason as detail,
\* and writes nothing to the ledger: no entry is submitted and no account is
\* created.  The only requests it can make are the three directory list
\* requests of a cache refresh, which precede the classification.
C9_NoLedgerWrites ==
  \A id \in 1..Len(history) :
    NotTransactionRun(id) =>
      /\ ~history[id].result.sent
      /\ history[id].result.reason = "Not a transaction"
      /\ history[id].result.detail = Some(Val(history[id].ai).reason)
      /\ \A i \in CallsOf(id) :
           calls[i].op \in ListOps
      /\ Cardinality(CallsOf(id)) \in {0, 3}

\* C9 witness: the first run, on a cold cache, fetched the directory and was
\* then skipped as no transaction, its reason "promotional" preserved
C9_Witness ==
  /\ NotTransactionRun(1)
  /\ history[1].result.detail = Some("promotional")
  /\ Cardinality(CallsOf(1)) = 3
  /\ Len(ynab.transactions) = 0

\* C10: a transfer-fee entry follows the primary entry of its run: the same
\* account, the same date, a strictly negative amount, and a key that is the
\* primary key with the tag alone replaced, hence a different key.
C10_FeeFollowsPrimary ==
  \A i \in Creates :
    calls[i].op = "fee" =>
      \E j \in CreatesOf(calls[i].run, "primary") :
        /\ j < i
        /\ Submitted(i).account_id = Submitted(j).account_id
        /\ Submitted(i).date = Submitted(j).date
        /\ Submitted(i).amount < 0
        /\ Submitted(j).import_id.tag = "sms:"
        /\ Submitted(i).import_id = [Submitted(j).import_id EXCEPT !.tag = "fee:"]
        /\ Submitted(i).import_id # Submitted(j).import_id

\* C10 witness: the fee of an Absa transfer to a mobile number was accepted:
\* K10 out of the account the primary entry went to
C10_Witness ==
  \E i \in Creates :
    /\ calls[i].op = "fee"
    /\ calls[i].ok
    /\ Submitted(i).amount = -toMilliunits(K(10, 0))
    /\ Submitted(i).account_id = "acct-absa"

\* invocation id returned on a message the classifier flagged as a follow-up
\* (only the correlation revision knows follow-ups)
FollowUpRun(id) ==
  /\ id \in 1..Len(history)
  /\ revision = "correlation"
  /\ IsSome(history[id].ai)
  /\ Val(history[id].ai).is_transaction
  /\ Val(history[id].ai).is_follow_up

\* the follow-up run id was matched with a primary record of the store
Matched(id) == FollowUpRun(id) /\ IsSome(history[id].primaryTxn)

\* the fee the schedule has for the matched primary record of run id and the
\* transfer type its follow-up resolves to (None when there is none)
MatchedFee(id) ==
  LET h == history[id]
      p == Val(h.primaryTxn)
      t == FollowUpTransferType(Val(h.ai))
  IN  IF IsSome(t) /\ Val(t) \notin {"", "unknown"}
        THEN calculateFee(senderToProvider(h.sender), Val(t),
                          IF IsSome(p.amount) THEN Val(p.amount) ELSE 0).fee
        ELSE None

\* a transfer type resolves for run id with a configured fee above zero
FeeResolves(id) == Matched(id) /\ IsSome(MatchedFee(id)) /\ Val(MatchedFee(id)) > 0

\* the requests of run id that write to the ledger
WritesOf(id) ==
  {i \in 1..Len(calls) : calls[i].run = id /\ calls[i].op \in CreateKinds \cup {"createAccount"}}

\* run id made exactly one write: a correlated fee computed from the matched
\* primary record's amount, on its account, under its key with the tag xfr:
OneCorrelatedFee(id) ==
  LET p == Val(history[id].primaryTxn) IN
  /\ Cardinality(WritesOf(id)) = 1
  /\ \A i \in WritesOf(id) :
       /\ calls[i].op = "xfr"
       /\ Submitted(i).account_id = Val(p.ynab_account_id)
       /\ Submitted(i).amount = -toMilliunits(Val(MatchedFee(id)))
       /\ Submitted(i).import_id = [Val(p.import_id) EXCEPT !.tag = "xfr:"]

LedgerOnlyGrows ==
  /\ Len(ynab'.transactions) >= Len(ynab.transactions)
  /\ \A a \in 1..Len(ynab.transactions) : ynab'.transactions[a] = ynab.transactions[a]

\* the placeholder revision owes run id its estimate: an Absa outflow without
\* a transfer type (for which no transfer fee can have been posted)
PlaceholderExpected(id) ==
  LET ai == Val(Invocation(id).ai) IN
  /\ revision = "placeholder"
  /\ senderToProvider(Invocation(id).sender) = "absa"
  /\ ai.direction = Some("outflow")
  /\ (~IsSome(ai.transfer_type) \/ Val(ai.transfer_type) \in {"", "unknown"})

\* the sender of run id is charged for its notifications
NotificationExpected(id) ==
  LET fee == getSmsNotificationFee(senderToProvider(Invocation(id).sender)).fee
  IN  IsSome(fee) /\ Val(fee) > 0

\* a returned standalone run whose primary entry was accepted is posted; it
\* made at most one request per kind of entry and attempted every fee due
PostedDespiteFees ==
  \A id \in 1..Len(history) :
    (Standalone(id) /\ PrimaryPosted(id)) =>
      /\ history[id].result.sent
      /\ \A kind \in StandaloneKinds : Cardinality(CreatesOf(id, kind)) <= 1
      /\ FeeExpected(id) => CreatesOf(id, "fee") # {}
      /\ PlaceholderExpected(id) => CreatesOf(id, "plt") # {}
      /\ NotificationExpected(id) => CreatesOf(id, "ntf") # {}
      /\ \A i \in CreatesOf(id, "primary") :
           \E a \in 1..Len(ynab.transactions) :
             ynab.transactions[a].import_id = Submitted(i).import_id

\* C12: once the primary entry of a standalone run is accepted the run ends
\* posted (sent = true) whatever becomes of its fee submissions: a failed fee
\* submission is not retried (one request per kind at most), the fees still
\* due are attempted after it, and no step removes or alters an entry the
\* ledger holds.
C12_FeesAreBestEffort == []PostedDespiteFees /\ [][LedgerOnlyGrows]_vars

\* C12 witness: an Absa transfer to a mobile number returned posted although
\* the ledger rejected its transfer fee; the notification fee was attempted
\* after it and the primary entry is in the ledger
C12_Witness ==
  \E id \in 1..Len(history) :
    /\ Standalone(id) /\ PrimaryPosted(id)
    /\ history[id].result.sent
    /\ \E i \in CreatesOf(id, "fee") : ~calls[i].ok
    /\ \E i \in CreatesOf(id, "fee"), j \in CreatesOf(id, "ntf") : i < j
    /\ \E a \in 1..Len(ynab.transactions) :
         ynab.transactions[a].import_id = Val(history[id].importId)

\* the ledger rejected the primary entry of invocation id
PrimaryRejected(id) == \E i \in CreatesOf(id, "primary") : ~calls[i].ok

\* a returned run whose primary entry was rejected ended failed as a ledger
\* error, submitted no fee of any kind, and made no request after the primary
FailedAtPrimary ==
  \A id \in 1..Len(history) :
    PrimaryRejected(id) =>
      /\ ~history[id].result.sent
      /\ history[id].result.reason = "YNAB error"
      /\ \A kind \in {"fee", "plt", "ntf", "xfr"} : CreatesOf(id, kind) = {}
      /\ \A i \in CreatesOf(id, "primary"), j \in CallsOf(id) : j <= i

\* a step that adds a correlation record belongs to a run whose primary
\* entry was accepted
RecordsFollowPostedPrimary ==
  Len(store') > Len(store) => (PrimaryPosted(run.id) /\ ~PrimaryRejected(run.id))

\* C13: when the ledger rejects the primary entry the run ends failed (ledger
\* error) and commits nothing after it: no fee entry of any kind is
\* submitted, the rejected request is the run's last, and no correlation
\* record is stored by a run whose primary entry was rejected.
C13_RejectedPrimaryIsFatal == []FailedAtPrimary /\ [][RecordsFollowPostedPrimary]_vars

\* C13 witness: with the correlation store configured, the ledger rejected
\* the primary entry of an Absa transfer to a mobile number, for which a
\* transfer fee and a notification fee would have been due; the run failed
\* and the store is empty
C13_Witness ==
  /\ revision = "correlation" /\ supabase
  /\ Len(history) = 1
  /\ PrimaryRejected(1)
  /\ FeeExpected(1) /\ NotificationExpected(1)
  /\ ~history[1].result.sent
  /\ store = <<>>

\* a directory request of invocation id went unanswered
FetchFailed(id) == \E i \in CallsOf(id) : calls[i].op \in ListOps /\ ~calls[i].ok

\* a returned run one of whose directory requests failed ended failed with
\* the reason of the cache, before the classifier was called (it has no
\* classification), having made the three list requests and nothing else
AbortedAtFetch ==
  \A id \in 1..Len(history) :
    FetchFailed(id) =>
      /\ ~history[id].result.sent
      /\ history[id].result.reason = CacheFailureReason
      /\ history[id].ai = None
      /\ WritesOf(id) = {}
      /\ Cardinality(CallsOf(id)) = 3
      /\ \A i \in CallsOf(id) : calls[i].op \in ListOps

\* a step in which a directory request fails leaves the cache as it was
FailedFetchKeepsCache ==
  (\E i \in (Len(calls) + 1)..Len(calls') : calls'[i].op \in ListOps /\ ~calls'[i].ok)
    => cache' = cache

\* C14: if any of the directory requests fails while the cache is empty or
\* stale, the run ends failed before the classifier is called and before any
\* ledger write, and the cache is left exactly as it was before the attempt.
C14_FetchFailureAborts == []AbortedAtFetch /\ [][FailedFetchKeepsCache]_vars

\* C14 witness: the first run filled the cache, it went stale, and the second
\* run's refresh failed on the payee list alone: the run failed and the cache
\* still holds the snapshot of the first run
C14_Witness ==
  /\ Len(history) = 2
  /\ FetchFailed(2)
  /\ \E i \in CallsOf(2) : calls[i].op = "listAccounts" /\ calls[i].ok
  /\ \E i \in CallsOf(2) : calls[i].op = "listPayees" /\ ~calls[i].ok
  /\ ~history[2].result.sent
  /\ IsSome(cache)
  /\ Val(cache).fetchedAt = Start
  /\ ~isCacheValid(cache, now)

\* C15: every run on one message ends in one terminal outcome, posted or
\* skipped or failed with a reason, whichever external call fails (classifier,
\* ledger list or create, correlation store read or write): the failure is a
\* structured result and never leaves the run as an unhandled error.
C15_EveryRunReturnsAnOutcome ==
  \A id \in 1..Len(history) :
    /\ history[id].result # Unhandled
    /\ history[id].result.status = 200
    /\ history[id].result.sent \/ history[id].result.reason # ""

\* the routing decision a Route step of the current run produced
Decided == IF run'.pc = "idle" THEN history'[Len(history')].routing ELSE run'.routing

\* a Route step for a message that neither its ending hint nor its sender
\* leads to an account of the cache: the fallback account of the cache is
\* reused without a request, or else one createAccount request for the
\* fixed name with balance 0 is made; accepted, its new account is the
\* decision, rejected, the decision is failed and the run returns failed
RouteFallsBack ==
  (/\ run.pc = "route" /\ run'.pc # "route"
   /\ ~IsSome(EndingAccountId(run.text)) /\ ~IsSome(SenderAccountId(run.sender)))
  => LET existing == findAccountByName(cache, FALLBACK_ACCOUNT_NAME)
         last == calls'[Len(calls')]
     IN  IF IsSome(existing)
           THEN /\ Decided = RoutingResult(Some(Val(existing).id),
                                           Some(FALLBACK_ACCOUNT_NAME), "fallback_existing")
                /\ calls' = calls
                /\ run'.pc = "postPrimary"
           ELSE /\ Len(calls') = Len(calls) + 1
                /\ last.run = run.id /\ last.op = "createAccount"
                /\ Val(last.body).name = FALLBACK_ACCOUNT_NAME
                /\ Val(last.body).balance = 0
                /\ IF last.ok
                     THEN /\ Decided.source = "fallback_created"
                          /\ IsSome(Decided.accountId)
                          /\ Decided.accountName = Some(FALLBACK_ACCOUNT_NAME)
                          /\ run'.pc = "postPrimary"
                          /\ \E i \in 1..Len(ynab'.accounts) :
                               /\ Some(ynab'.accounts[i].id) = Decided.accountId
                               /\ ynab'.accounts[i].name = FALLBACK_ACCOUNT_NAME
                     ELSE /\ Decided = RoutingResult(None, None, "failed")
                          /\ run'.pc = "idle"
                          /\ ~history'[Len(history')].result.sent
                          /\ history'[Len(history')].result.reason = NoAccountReason
                          /\ ynab' = ynab

\* a routing decision has no account id exactly when its provenance is
\* failed, and a run whose decision is failed has returned failed for want of
\* an account and has submitted no entry
FailedMeansNoAccount ==
  \A id \in 1..(Len(history) + (IF run.pc = "idle" THEN 0 ELSE 1)) :
    LET r == Invocation(id) IN
    r.routing.source # "none" =>
      /\ (r.routing.accountId = None) <=> (r.routing.source = "failed")
      /\ r.routing.source = "failed" =>
           /\ id <= Len(history)
           /\ ~history[id].result.sent
           /\ history[id].result.reason = NoAccountReason
           /\ \A i \in Creates : calls[i].run # id

\* C16: when neither the ending hint nor the sender mapping resolves, the
\* fallback account is the decision: fallback_existing when the account of
\* the fixed name is in the cache, else it is created with balance 0 and the
\* decision is fallback_created; when the creation fails the decision is
\* failed with no account id and the run ends failed (no account) without
\* submitting an entry.  A decision has no account id exactly when its
\* provenance is failed.
C16_FallbackAccount == []FailedMeansNoAccount /\ [][RouteFallsBack]_vars

\* C16 witness: two runs on messages no hint resolves; for the first the
\* creation of the fallback account was rejected and the run failed without
\* an entry, for the second it was accepted
C16_Witness ==
  /\ Len(history) = 2
  /\ history[1].routing.source = "failed"
  /\ history[1].result.reason = NoAccountReason
  /\ history[2].routing.source = "fallback_created"
  /\ IsSome(history[2].routing.accountId)
  /\ \E i \in 1..Len(calls) : calls[i].run = 1 /\ calls[i].op = "createAccount" /\ ~calls[i].ok
  /\ \E i \in 1..Len(calls) : calls[i].run = 2 /\ calls[i].op = "createAccount" /\ calls[i].ok

\* the tag each kind of entry is submitted under
TagOf(kind) ==
  CASE kind = "primary" -> "sms:"
    [] kind = "fee" -> "fee:"
    [] kind = "plt" -> "plt:"
    [] kind = "ntf" -> "ntf:"
    [] kind = "xfr" -> "xfr:"

\* C17: the keys of the primary entry, the transfer fee, the placeholder fee
\* and the notification fee of one message are pairwise different (entries of
\* different kinds never carry the same key, each kind having its own tag in
\* front of the digest of the message), and no key submitted to the ledger is
\* longer than the 36 characters the ledger takes.
C17_KeysPerKind ==
  /\ \A i \in Creates :
       /\ Submitted(i).import_id.tag = TagOf(calls[i].op)
       /\ ImportIdLength(Submitted(i).import_id) <= MaxImportIdLength
  /\ \A i, j \in Creates :
       calls[i].op # calls[j].op => Submitted(i).import_id # Submitted(j).import_id
  /\ \A i, j \in Creates :
       (calls[i].run = calls[j].run /\ calls[i].op \in StandaloneKinds /\ calls[i].op # calls[j].op)
         => /\ Submitted(i).import_id.hex = Submitted(j).import_id.hex
            /\ Submitted(i).import_id.tag # Submitted(j).import_id.tag

\* C17 witness: one message was delivered twice and classified with a known
\* transfer type once and without one the other time, so that entries of all
\* four kinds were submitted for it, their keys sharing one digest
C17_Witness ==
  \E i, j, k, l \in Creates :
    /\ calls[i].op = "primary" /\ calls[j].op = "fee"
    /\ calls[k].op = "plt" /\ calls[l].op = "ntf"
    /\ calls[j].run = calls[l].run
    /\ calls[k].run # calls[j].run
    /\ Submitted(j).import_id.hex = Submitted(i).import_id.hex
    /\ Submitted(k).import_id.hex = Submitted(i).import_id.hex
    /\ Submitted(l).import_id.hex = Submitted(i).import_id.hex
    /\ ImportIdLength(Submitted(l).import_id) = MaxImportIdLength

\* invocation id, returned or in progress, is on a message classified as a
\* transaction that is no follow-up and lacks its amount or its direction
Incomplete(id) ==
  LET r == Invocation(id) IN
  /\ IsSome(r.ai)
  /\ Val(r.ai).is_transaction
  /\ ~(revision = "correlation" /\ Val(r.ai).is_follow_up)
  /\ (~IsSome(Val(r.ai).amount) \/ ~Truthy(Val(r.ai).direction))

\* C18: a standalone transaction whose amount is null or whose direction is
\* null ends failed for its incomplete extraction before routing: the run has
\* no routing decision, submitted no entry and created no account.
C18_IncompleteExtractionFails ==
  \A id \in 1..(Len(history) + (IF run.pc = "idle" THEN 0 ELSE 1)) :
    Incomplete(id) =>
      /\ id <= Len(history)
      /\ ~history[id].result.sent
      /\ history[id].result.reason =
           (IF ~IsSome(Val(history[id].ai).amount) THEN "AI could not extract amount"
            ELSE "AI could not determine direction")
      /\ history[id].routing.source = "none"
      /\ history[id].importId = None
      /\ WritesOf(id) = {}

\* C18 witness: the handler with the correlation store returned on a message
\* without an amount from a sender no account is mapped to, and on one
\* without a direction; no account was created and no entry submitted
C18_Witness ==
  /\ revision = "correlation"
  /\ Len(history) = 2
  /\ Incomplete(1) /\ ~IsSome(Val(history[1].ai).amount)
  /\ history[1].sender = "MTN"
  /\ Incomplete(2) /\ IsSome(Val(history[2].ai).amount)
  /\ history[2].result.reason = "AI could not determine direction"
  /\ Creates = {}
  /\ CreatedAccounts = {}

\* invocation id, returned or in progress, is on a message the classifier
\* flagged as a follow-up, in the revision that knows follow-ups
FollowUp(id) ==
  LET r == Invocation(id) IN
  /\ revision = "correlation"
  /\ IsSome(r.ai)
  /\ Val(r.ai).is_transaction
  /\ Val(r.ai).is_follow_up

\* a follow-up run has made no routing decision and minted no primary key;
\* it has made at most one write to the ledger, a fee under the tag xfr:
\* for the primary record it was matched with
FollowUpWritesOneFeeAtMost ==
  \A id \in 1..(Len(history) + (IF run.pc = "idle" THEN 0 ELSE 1)) :
    FollowUp(id) =>
      /\ Invocation(id).routing.source = "none"
      /\ Invocation(id).importId = None
      /\ Cardinality(WritesOf(id)) <= 1
      /\ \A i \in WritesOf(id) :
           /\ calls[i].op = "xfr"
           /\ Submitted(i).import_id.tag = "xfr:"
           /\ IsSome(Invocation(id).primaryTxn)

\* a step of a follow-up run adds no record to the correlation store and
\* changes none but in its fee_applied flag
FollowUpStoresNothing ==
  (run.pc # "idle" /\ FollowUp(run.id)) =>
    /\ Len(store') = Len(store)
    /\ \A i \in 1..Len(store) :
         store'[i] = store[i] \/ store'[i] = [store[i] EXCEPT !.fee_applied = TRUE]

\* C19: a run on a message flagged as a follow-up never submits a primary
\* entry and never stores a primary correlation record: it submits at most
\* one ledger entry, and that one is a fee entry.
C19_FollowUpNeverPostsPrimary ==
  []FollowUpWritesOneFeeAtMost /\ [][FollowUpStoresNothing]_vars

\* C19 witness: a primary of K100 was posted and recorded; the follow-up
\* run that matched it submitted the fee of K10 as its only entry, and the
\* store still holds the one record
C19_Witness ==
  /\ Len(history) = 2
  /\ ~FollowUp(1) /\ PrimaryPosted(1)
  /\ FollowUp(2) /\ history[2].result.sent
  /\ Len(store) = 1 /\ store[1].fee_applied
  /\ Cardinality(WritesOf(2)) = 1
  /\ \A i \in WritesOf(2) : calls[i].op = "xfr" /\ Submitted(i).amount = -toMilliunits(K(10, 0))
  /\ Len(ynab.transactions) >= 2

\* the result of a follow-up without a primary record to go with
NoPrimaryFound ==
  YnabResult(FALSE, "Follow-up SMS but no primary transaction found to correlate", None)

\* the store holds a record the follow-up of the sender can be matched with:
\* the same sender, primary, its fee not applied, received inside the window
HoldsMatch(sender) ==
  \E i \in 1..Len(store) :
    /\ Ilike(store[i].sender, sender)
    /\ store[i].is_primary
    /\ ~store[i].fee_applied
    /\ now - Instant(store[i].received_at) <= CorrelationWindow

\* the lookup step of a follow-up run while the store holds no match
LookupWithoutMatch ==
  /\ run.pc = "findMatch"
  /\ run'.pc # "findMatch"
  /\ ~HoldsMatch(run.sender)

\* the step left ledger, requests and store as they were and ended the run
EndsUntouched ==
  /\ run'.pc = "idle"
  /\ Len(history') = Len(history) + 1
  /\ calls' = calls
  /\ ynab' = ynab
  /\ store' = store

\* C20: a follow-up message for which the store holds no matching primary
\* record (same sender, primary, fee not applied, inside the window) ends
\* skipped for want of a primary to correlate, submits no ledger entry and
\* changes no correlation record.
C20_NoMatchIsSkipped ==
  [][LookupWithoutMatch =>
       (EndsUntouched /\ history'[Len(history')].result = NoPrimaryFound)]_vars

\* a run that returned for want of a primary was matched with none and made
\* no write to the ledger
SkippedWithoutWrites ==
  \A id \in 1..Len(history) :
    history[id].result = NoPrimaryFound =>
      /\ FollowUp(id)
      /\ history[id].primaryTxn = None
      /\ WritesOf(id) = {}

\* what the handler does keep of it: when the lookup is answered and the store holds
\* no matching record the run ends skipped for want of a primary; when the
\* lookup is not answered the run ends without a result; either way no ledger
\* entry is submitted and no correlation record changes.
NoMatchWritesNothing ==
  /\ []SkippedWithoutWrites
  /\ [][LookupWithoutMatch =>
          (/\ EndsUntouched
           /\ history'[Len(history')].result \in {NoPrimaryFound, Unhandled})]_vars

\* the answered case: a primary of Absa was posted and recorded, more than the
\* window went by, and the follow-up that came then was answered by the store
\* with no record: it ended skipped, the record untouched, no fee submitted
NoMatchAnswered ==
  /\ Len(history) = 2
  /\ ticks = 1
  /\ Len(store) = 1
  /\ Ilike(store[1].sender, history[2].sender)
  /\ ~store[1].fee_applied
  /\ FollowUp(2)
  /\ history[2].result = NoPrimaryFound
  /\ WritesOf(2) = {}

\* invocation id returned on a message of a provider that charges for each
\* notification, classified as a transaction, and no request it made to the
\* ledger or to the store failed
ChargedSms(id) ==
  /\ NotificationExpected(id)
  /\ IsSome(history[id].ai)
  /\ Val(history[id].ai).is_transaction
  /\ history[id].result # Unhandled
  /\ \A i \in CallsOf(id) : calls[i].ok

\* C21: a notification-fee entry is created for every SMS received from a
\* provider that charges a fee per SMS, whatever the direction or the kind of
\* the message, under a key of its own (the tag ntf:, not that of the
\* transfer fee).
C21_NotificationFeeForEverySms ==
  \A id \in 1..Len(history) :
    ChargedSms(id) =>
      \E i \in CreatesOf(id, "ntf") :
        /\ Submitted(i).import_id.tag = "ntf:"
        /\ Submitted(i).amount = -toMilliunits(K(0, 50))

EnsureCacheStep ==
  (run.pc = "ensureCache" /\ run'.pc # "ensureCache") =>
    IF IsSome(cache) /\ now - Val(cache).fetchedAt < 5
      THEN /\ calls' = calls
           /\ cache' = cache
           /\ run'.pc = AfterCache
      ELSE /\ Len(calls') = Len(calls) + 3
           /\ {calls'[i].op : i \in (Len(calls) + 1)..Len(calls')} = ListOps
           /\ IF \A i \in (Len(calls) + 1)..Len(calls') : calls'[i].ok
                THEN /\ cache' = Some([accounts |-> ynab.accounts,
                                       categories |-> ynab.categories,
                                       payees |-> ynab.payees, fetchedAt |-> now])
                     /\ run'.pc = AfterCache
                ELSE run'.pc = "idle"

\* once ensureCache has returned there is a snapshot younger than the TTL
FreshAfterEnsureCache ==
  run.pc = AfterCache =>
    /\ IsSome(cache)
    /\ now - Val(cache).fetchedAt >= 0
    /\ now - Val(cache).fetchedAt < 5

\* C23: ensureCache fetches nothing when a snapshot exists with
\* now - fetchedAt < TTL (5 minutes); otherwise (no snapshot, or age >= TTL)
\* it fetches accounts, categories and payees and replaces the snapshot, so
\* that on every successful return a snapshot younger than the TTL exists.
C23_CacheFreshness == []FreshAfterEnsureCache /\ [][EnsureCacheStep]_vars

\* C23 witness: a snapshot one minute short of the TTL was served without a
\* request
C23_Witness ==
  /\ run.pc = AfterCache
  /\ calls = <<>>
  /\ IsSome(cache)
  /\ now - Val(cache).fetchedAt = CACHE_TTL - 1
  /\ Val(cache).accounts = << >>

\* the list a finished lookup went through
LookedIn ==
  IF ~IsSome(cache) THEN << >>
  ELSE CASE Val(lookupArgs).kind = "account" -> Val(cache).accounts
         [] Val(lookupArgs).kind = "category" -> Val(cache).categories
         [] Val(lookupArgs).kind = "payee" -> Val(cache).payees

\* the live entries of the list whose whole name is the name looked up, the
\* case of the letters aside
LiveHits ==
  {i \in 1..Len(LookedIn) :
     /\ ~LookedIn[i].deleted
     /\ ToLower(Chars(LookedIn[i].name)) = ToLower(Chars(Val(lookupArgs).name))}

\* C26: every account, category and payee lookup matches the whole name
\* without regard to case and never returns a soft-deleted entry: with only a
\* deleted entry of the name it returns nothing, and with a deleted and a
\* live entry of the name it returns the live one (the first, if several).
C26_NameLookup ==
  IsSome(lookupReturned) =>
    LET found == Val(lookupReturned) IN
    /\ (found = None) <=> (LiveHits = {})
    /\ IsSome(found) =>
         /\ ~Val(found).deleted
         /\ \E i \in LiveHits : Val(found) = LookedIn[i] /\ \A j \in LiveHits : i <= j

\* C26 witness: "absa" was looked up among the payees Absa (deleted), ABSA
\* and absa, and the live entry ABSA came back
C26_Witness ==
  /\ IsSome(lookupReturned)
  /\ Val(lookupArgs) = [kind |-> "payee", name |-> "absa"]
  /\ IsSome(cache) /\ Len(Val(cache).payees) = 3 /\ Val(cache).payees[1].deleted
  /\ Val(lookupReturned) = Some(Entry("e2", "ABSA", FALSE))

\* C27: over any sequence of runs the fallback account is created at most
\* once: once a run has created it, no later run issues another
\* create-account request, runs inside the cache TTL of the creating run
\* included; the later runs find the account and reuse it.
C27_FallbackCreatedOnce ==
  /\ \A i, j \in 1..Len(calls) :
       (i < j /\ calls[i].op = "createAccount" /\ calls[i].ok)
         => calls[j].op # "createAccount"
  /\ Cardinality({i \in 1..Len(ynab.accounts) :
                    ynab.accounts[i].name = FALLBACK_ACCOUNT_NAME}) <= 1

\* the transfer fees the ledger holds for the primary entry of key k: the fee
\* of its own run (tag fee:) and the fee of a correlated follow-up (tag xfr:)
TransferFeesOf(k) ==
  {i \in 1..Len(ynab.transactions) :
     /\ ynab.transactions[i].import_id.tag \in {"fee:", "xfr:"}
     /\ ynab.transactions[i].import_id.hex = k.hex}

\* C28: the ledger never holds more than one transfer-fee entry for a
\* primary entry, its own run and every follow-up run correlated to it taken
\* together: a primary whose transfer fee was posted in its own run is not
\* charged again when a follow-up is correlated to it.
C28_OneTransferFeePerPrimary ==
  \A i \in 1..Len(ynab.transactions) :
    ynab.transactions[i].import_id.tag = "sms:"
      => Cardinality(TransferFeesOf(ynab.transactions[i].import_id)) <= 1

\* two invocations received the identical message, its receipt timestamp
\* missing or not parsable, and the classifier answered both alike
SameUndatedDelivery(a, b) ==
  /\ Invocation(a).sender = Invocation(b).sender
  /\ Invocation(a).text = Invocation(b).text
  /\ Invocation(a).receivedAtRaw = Invocation(b).receivedAtRaw
  /\ (~IsSome(Invocation(a).receivedAtRaw) \/ ~Val(Invocation(a).receivedAtRaw).valid)
  /\ Invocation(a).ai = Invocation(b).ai

\* C30: a message whose receipt timestamp is missing or unparseable gets, on
\* a second delivery, the primary key of the first: the key depends on the
\* contents of the message alone, not on the instant of processing.
C30_UndatedReplayKeepsKey ==
  \A i, j \in Creates :
    (/\ calls[i].op = "primary" /\ calls[j].op = "primary"
     /\ SameUndatedDelivery(calls[i].run, calls[j].run))
      => Submitted(i).import_id = Submitted(j).import_id


(***************************************************************************)
(* Overlapping invocations (SpecOverlap).  Invocations return in any order, *)
(* so one is found by its number, not by its place in history.              *)
(***************************************************************************)
Handler(id) ==
  IF run.pc # "idle" /\ run.id = id THEN run
  ELSE IF parked.pc # "idle" /\ parked.id = id THEN parked
  ELSE history[CHOOSE k \in 1..Len(history) : history[k].id = id]

\* the two invocations were handed the identical message, its timestamp
\* parseable, and extracted the same from it
SameMessage(a, b) ==
  /\ Handler(a).sender = Handler(b).sender
  /\ Handler(a).text = Handler(b).text
  /\ Handler(a).receivedAtRaw = Handler(b).receivedAtRaw
  /\ IsSome(Handler(a).receivedAtRaw)
  /\ Val(Handler(a).receivedAtRaw).valid
  /\ Handler(a).ai = Handler(b).ai

\* the entries of the ledger under the key k
EntriesWithKey(k) ==
  {a \in 1..Len(ynab.transactions) : ynab.transactions[a].import_id = k}

\* C25: two overlapping runs that process the identical message (parseable
\* timestamp) submit the same primary key and the same fee keys, and the
\* ledger, which deduplicates by key, holds exactly one entry under every key
\* it accepted: one primary entry and one of each fee entry.
C25_OverlapSharesKeys ==
  /\ \A i \in Creates, j \in Creates :
       (/\ calls[i].run # calls[j].run
        /\ calls[i].op = calls[j].op
        /\ calls[i].op \in StandaloneKinds
        /\ SameMessage(calls[i].run, calls[j].run))
         => Submitted(i).import_id = Submitted(j).import_id
  /\ \A i \in Creates :
       calls[i].ok => Cardinality(EntriesWithKey(Submitted(i).import_id)) = 1
  /\ \A a \in 1..Len(ynab.transactions) :
       Cardinality(EntriesWithKey(ynab.transactions[a].import_id)) = 1

\* both runs have returned; the second posted its primary entry between the
\* first one's primary entry and the first one's transfer fee, and the ledger
\* holds one entry under each of the two keys
C25_Witness ==
  /\ Len(history) = 2
  /\ \E i \in Creates, j \in Creates, k \in Creates, l \in Creates :
       /\ i < j /\ j < k /\ k < l
       /\ calls[i].run = 1 /\ calls[j].run = 2 /\ calls[k].run = 1 /\ calls[l].run = 2
       /\ calls[i].op = "primary" /\ calls[j].op = "primary"
       /\ calls[k].op = "fee" /\ calls[l].op = "fee"
       /\ calls[i].ok /\ calls[j].ok /\ calls[k].ok /\ calls[l].ok
       /\ SameMessage(1, 2)
       /\ Submitted(i).import_id = Submitted(j).import_id
       /\ Submitted(k).import_id = Submitted(l).import_id
       /\ Cardinality(EntriesWithKey(Submitted(i).import_id)) = 1
       /\ Cardinality(EntriesWithKey(Submitted(k).import_id)) = 1


\* the correlated fee entries of the ledger that belong to the primary key k
CorrelatedFeesOf(k) ==
  {a \in 1..Len(ynab.transactions) :
     /\ ynab.transactions[a].import_id.tag = "xfr:"
     /\ ynab.transactions[a].import_id.hex = k.hex}

\* follow-ups that matched the same primary record submit the same key, and
\* the ledger holds one correlated fee entry per primary record at most
OneCorrelatedFeePerPrimary ==
  /\ \A i \in Creates, j \in Creates :
       (/\ calls[i].op = "xfr" /\ calls[j].op = "xfr"
        /\ Val(Handler(calls[i].run).primaryTxn).id
             = Val(Handler(calls[j].run).primaryTxn).id)
         => Submitted(i).import_id = Submitted(j).import_id
  /\ \A p \in 1..Len(store) :
       store[p].is_primary =>
         Cardinality(CorrelatedFeesOf(Val(store[p].import_id))) <= 1

\* the step in which the handler in run gets the answer to its query for a
\* recent primary record
MatchLookup ==
  /\ run.pc = "findMatch"
  /\ parked' = parked
  /\ run' # run

\* the record that step returned, if any
MatchReturned ==
  IF run'.pc = "idle" THEN history'[Len(history')].primaryTxn ELSE run'.primaryTxn

NeverMatchedOnceApplied ==
  (MatchLookup /\ IsSome(MatchReturned)) =>
    \A p \in 1..Len(store) :
      store[p].id = Val(MatchReturned).id => ~store[p].fee_applied

\* C29: follow-ups that correlate to the same primary record, one after the
\* other or overlapping, leave at most one correlated fee entry for that
\* primary in the ledger, and a primary record whose fee_applied is true is
\* never returned as a match.
C29_OneFeePerCorrelatedPrimary ==
  []OneCorrelatedFeePerPrimary /\ [][NeverMatchedOnceApplied]_vars

\* two overlapping follow-ups both matched record 1 before either marked it,
\* both submitted the fee and were accepted, both marked the record, and the
\* ledger holds one correlated fee entry for it
C29_Witness ==
  /\ Len(history) = 2
  /\ \A k \in 1..2 :
       /\ IsSome(history[k].primaryTxn)
       /\ Val(history[k].primaryTxn).id = 1
       /\ history[k].result.sent
  /\ \E i \in Creates, j \in Creates :
       /\ calls[i].run = 1 /\ calls[j].run = 2
       /\ calls[i].op = "xfr" /\ calls[j].op = "xfr"
       /\ calls[i].ok /\ calls[j].ok
  /\ store[1].fee_applied
  /\ Cardinality(CorrelatedFeesOf(Val(store[1].import_id))) = 1


\* the invocations whose three list requests were all answered
CompletedRefreshes ==
  {id \in {calls[i].run : i \in 1..Len(calls)} :
     \A op \in ListOps : \E i \in CallsOf(id) : calls[i].op = op /\ calls[i].ok}

\* what the ledger answered to the invocation's list request
AnswerTo(id, op) ==
  Val(calls[CHOOSE i \in CallsOf(id) : calls[i].op = op].body)

\* the snapshot holds exactly the three answers of the refresh of id
SnapshotOf(c, id) ==
  /\ IsSome(c)
  /\ id \in CompletedRefreshes
  /\ Val(c).accounts = AnswerTo(id, "listAccounts")
  /\ Val(c).categories = AnswerTo(id, "listCategories")
  /\ Val(c).payees = AnswerTo(id, "listPayees")

SnapshotIsWhole == cache = None \/ \E id \in CompletedRefreshes : SnapshotOf(cache, id)

\* the snapshot is replaced only by the handler whose refresh has completed
\* in that step, all three lists at once
ReplacedWhole == cache' # cache => SnapshotOf(cache, run.id)'

\* C24: however overlapping runs that refresh the directory cache interleave
\* (two refreshes in flight at once, a refresh failing part-way), a lookup
\* finds no snapshot or one whose accounts, categories and payees are the
\* answers of one single completed refresh, never a partial or mixed one.
C24_SnapshotIsNeverMixed ==
  []SnapshotIsWhole /\ [][ReplacedWhole]_vars

\* the handler in run has completed its refresh and is about to look up the
\* account in it, while the refresh of the other handler, begun when there
\* was no snapshot either, is still in flight with some lists answered
C24_Witness ==
  /\ run.pc = "route"
  /\ SnapshotOf(cache, run.id)
  /\ parked.pc = "fetching"
  /\ DOMAIN parked.fetched # {}


(***************************************************************************)
(* The order of a standalone run.                                          *)
(***************************************************************************)
\* the place of a step in a standalone run; validation belongs to the
\* classification step, which hands over to routing only a complete extraction
StepRank(pc) ==
  CASE pc \in {"ensureCache", "fetching"} -> 1
    [] pc = "classify" -> 2
    [] pc = "route" -> 3
    [] pc = "postPrimary" -> 4
    [] pc = "storeContext" -> 5
    [] pc \in {"postFee", "postPlaceholder"} -> 6
    [] pc = "postNotification" -> 7
    [] OTHER -> 0

\* a step of a run never leads back to an earlier place
StepsInOrder ==
  (run.pc # "idle" /\ run'.pc # "idle" /\ run' # run
     /\ StepRank(run.pc) > 0 /\ StepRank(run'.pc) > 0)
    => StepRank(run'.pc) > StepRank(run.pc)

\* a record is added only at its place, by a run whose primary entry the
\* ledger has accepted
StoredAfterPrimary ==
  Len(store') > Len(store) =>
    /\ run.pc = "storeContext"
    /\ \E j \in CreatesOf(run.id, "primary") : calls[j].ok
    /\ store'[Len(store')].import_id = run.importId

\* whether the record was stored or not, the run goes on as it would have
StoreFailureIsHarmless ==
  (run.pc = "storeContext" /\ run' # run) =>
    IF run'.pc = "idle"
      THEN /\ NextStep(run, "primary") = "return"
           /\ history'[Len(history')].result.sent
      ELSE run'.pc = NextStep(run, "primary")

\* every fee entry was submitted after the primary entry of the same run had
\* been accepted
FeesAfterPrimary ==
  \A i \in Creates :
    calls[i].op \in {"fee", "plt", "ntf"} =>
      \E j \in CreatesOf(calls[i].run, "primary") : j < i /\ calls[j].ok

\* C31: a standalone run goes through directory refresh, classification and
\* validation, routing, primary post, correlation-record store and fee posts
\* in this order; no record is stored and no fee entry is submitted unless the
\* primary post of the same run has succeeded before, and a failure to store
\* the record neither changes the outcome (posted) nor prevents the fee posts.
C31_StandaloneOrder ==
  /\ []FeesAfterPrimary
  /\ [][StepsInOrder /\ StoredAfterPrimary /\ StoreFailureIsHarmless]_vars

\* the store is configured, the record of run 1 could not be stored, and the
\* run went on to post its transfer fee and ended posted
C31_Witness ==
  /\ revision = "correlation" /\ supabase
  /\ Len(history) >= 1
  /\ Standalone(1) /\ PrimaryPosted(1)
  /\ store = <<>>
  /\ \E i \in CreatesOf(1, "fee") : calls[i].ok
  /\ history[1].result.sent


\* C32: a follow-up run reports sent = true exactly when a fee entry of that
\* run was accepted by the ledger; when the entry was accepted and marking the
\* primary record then fails, the run does not report that the fee
\* transaction failed to be created.
C32_FeeReportedIffCreated ==
  \A id \in 1..Len(history) :
    FollowUpRun(id) =>
      LET created == \E i \in CreatesOf(id, "xfr") : calls[i].ok IN
      /\ history[id].result.sent <=> created
      /\ created =>
           history[id].result.reason # "Failed to create correlated fee transaction"

\* C33: whatever is delivered, and however often, the correlation store holds
\* at most one primary record per primary idempotency key.
C33_OneRecordPerKey ==
  \A a \in 1..Len(store), b \in 1..Len(store) :
    (a # b /\ store[a].is_primary /\ store[b].is_primary)
      => store[a].import_id # store[b].import_id

\* C36: once a follow-up run has posted a correlated fee, the store holds the
\* follow-up's record linked to the primary record, whose fee_applied is true.
C36_CorrelationLinkSet ==
  \A id \in 1..Len(history) :
    (FollowUpRun(id) /\ history[id].result.sent) =>
      /\ \A p \in 1..Len(store) :
           store[p].id = Val(history[id].primaryTxn).id => store[p].fee_applied
      /\ \E f \in 1..Len(store) :
           /\ ~store[f].is_primary
           /\ store[f].sms_text = history[id].text
           /\ store[f].correlated_with = Some(Val(history[id].primaryTxn).id)

\* C39: every primary entry is submitted in the uncleared state.
C39_PrimaryIsUncleared ==
  \A i \in Creates : calls[i].op = "primary" => Submitted(i).cleared = "uncleared"


(***************************************************************************)
(* Correlation (SpecCorrelate).                                            *)
(***************************************************************************)
\* the rows a lookup for the sender may consider: the same sender (the case
\* of letters apart), primary, no fee applied yet, received inside the window
MatchCandidates(sender) ==
  {i \in 1..Len(store) :
     /\ ToLower(Chars(store[i].sender)) = ToLower(Chars(sender))
     /\ store[i].is_primary
     /\ ~store[i].fee_applied
     /\ Instant(store[i].received_at) >= now - CorrelationWindow}

\* the row returned for the arguments is right
RightMatch(args, returned) ==
  LET cands == MatchCandidates(args.sender)
      exact == {i \in cands : IsSome(args.amount) /\ store[i].amount = args.amount}
  IN  IF cands = {} THEN returned = None
      ELSE \E i \in cands :
             /\ returned = Some(store[i])
             /\ IF exact # {} THEN i \in exact
                ELSE \A j \in cands :
                       Instant(store[j].received_at) <= Instant(store[i].received_at)

\* C34: findMatch returns only a record of the same sender with is_primary
\* true, fee_applied false and a received time inside the window; a record
\* with exactly the supplied amount when an amount is supplied and such a
\* candidate exists, otherwise the most recently received candidate; null
\* when there is no candidate.
C34_FindMatch ==
  [][lookupReturned' # lookupReturned => RightMatch(Val(lookupArgs), Val(lookupReturned'))]_vars

\* a lookup with the amount K100 has returned a record of K100 although a
\* candidate of another amount was received later
C34_Witness ==
  /\ IsSome(lookupReturned) /\ IsSome(Val(lookupReturned))
  /\ Val(lookupArgs).amount = Some(K(100, 0))
  /\ Val(Val(lookupReturned)).amount = Some(K(100, 0))
  /\ \E j \in MatchCandidates(Val(lookupArgs).sender) :
       /\ store[j].amount # Some(K(100, 0))
       /\ Instant(store[j].received_at) > Instant(Val(Val(lookupReturned)).received_at)


\* C35: the fee entry of a follow-up run carries the date of the matched
\* primary record, not the date on which the follow-up was received.
C35_FeeDatedAsPrimary ==
  \A i \in Creates :
    calls[i].op = "xfr" =>
      Submitted(i).date = DateOnly(Val(Handler(calls[i].run).primaryTxn).received_at)

\* the outcomes of a follow-up that was correlated without a fee
NoFeeReasons ==
  {"Follow-up correlated but no fee configured for transfer type",
   "Follow-up SMS processed but no action needed"}

\* a correlated follow-up without a fee has ended skipped, has made no ledger
\* request, and its primary record is as it was matched, fee_applied false
CorrelatedWithoutFee ==
  \A id \in 1..Len(history) :
    (Matched(id) /\ ~FeeResolves(id)) =>
      /\ ~history[id].result.sent
      /\ history[id].result.reason \in NoFeeReasons
      /\ history[id].result.detail = None
      /\ CallsOf(id) = {}
      /\ \A p \in 1..Len(store) :
           store[p].id = Val(history[id].primaryTxn).id =>
             /\ store[p] = Val(history[id].primaryTxn)
             /\ ~store[p].fee_applied

\* the lookup step itself changes neither the ledger nor the store
LookupChangesNothing ==
  run.pc = "findMatch" => (store' = store /\ ynab' = ynab /\ calls' = calls)

\* C37: a follow-up that is correlated to a primary record but results in no
\* fee (schedule unconfigured, fee zero, amount outside every tier, or no
\* transfer type resolves) ends skipped without submitting any ledger entry,
\* and leaves the primary record unchanged, fee_applied false.
C37_NoFeeNoChange ==
  []CorrelatedWithoutFee /\ [][LookupChangesNothing]_vars

\* an Airtel follow-up typed same_network was matched with a record of
\* K20000, an amount outside every tier, and ended skipped; the record is
\* still a candidate for a later follow-up
C37_Witness ==
  /\ Len(history) = 1
  /\ Matched(1) /\ ~FeeResolves(1)
  /\ history[1].sender = "AirtelMoney"
  /\ Val(history[1].ai).transfer_type = Some("same_network")
  /\ Val(history[1].primaryTxn).amount = Some(K(20000, 0))
  /\ history[1].result.reason =
       "Follow-up correlated but no fee configured for transfer type"
  /\ Val(history[1].primaryTxn).id \in
       {store[p].id : p \in MatchCandidates("AirtelMoney")}


\* the provider whose account the sender table names
ProviderOfAccount(name) ==
  CASE name = "Airtel Money" -> "airtel"
    [] name = "MTN MoMo" -> "mtn"
    [] name = "Zamtel Money" -> "zamtel"
    [] name = "Absa Current" -> "absa"
    [] name = "Stanchart Current" -> "stanchart"
    [] OTHER -> "unknown"

\* C40: a sender that has an entry in the sender-to-account table is mapped
\* by senderToProvider to the provider of that account, never to the unknown
\* provider; so it is for every message routed by the sender mapping.
C40_MappedSenderHasProvider ==
  LET r == Invocation(1) IN
  r.routing.source = "sender_mapping" =>
    /\ getAccountNameBySender(r.sender) = r.routing.accountName
    /\ senderToProvider(r.sender) # "unknown"
    /\ senderToProvider(r.sender) = ProviderOfAccount(Val(r.routing.accountName))


\* C38: the amount of a primary entry, in minor units, is strictly positive
\* exactly when the direction is inflow and strictly negative exactly when it
\* is outflow, whatever amount the classifier returned.
C38_AmountSignedByDirection ==
  \A i \in Creates :
    calls[i].op = "primary" =>
      LET direction == Val(Invocation(calls[i].run).ai).direction IN
      /\ direction = Some("inflow") <=> Submitted(i).amount > 0
      /\ direction = Some("outflow") <=> Submitted(i).amount < 0

=============================================================================
